---- MODULE Spec2Model ----
(***************************************************************************)
(* VecFS storage (py-src/vecfs_py/storage.py, sparse.py): a JSONL file     *)
(* with an in-memory cache, mutations under one asyncio.Lock, and ranked   *)
(* search; the search and memorize tools of the protocol layer             *)
(* (vecfs_py/server.py); the dense-to-sparse conversion and its            *)
(* calibration statistics (vecfs_embed/sparsify.py); and the resolution of *)
(* the configuration (vecfs_embed/config.py).                              *)
(*                                                                         *)
(* Scheduling.  The callers are asyncio tasks of one event loop.  A task   *)
(* runs until it awaits; the model lets the loop switch tasks where a      *)
(* mutating operation awaits its file write (_persist_all,                 *)
(* _persist_append) and where Lock.acquire finds the lock taken.  In       *)
(* CPython the file writes are blocking calls that complete without        *)
(* suspending, so every behaviour of the program is a behaviour of this    *)
(* model (the model allows more interleavings, never fewer).               *)
(* ensure_file and _load_entries contain no await that can suspend, and    *)
(* run inside the step that calls them.                                    *)
(*                                                                         *)
(* Numbers.  Vector weights and scores are integers; similarities and      *)
(* ranks are exact rationals <<numerator, denominator>>.  The vectors of   *)
(* the model have integer norms, so that norm() is exact.  A score is a     *)
(* float: the model's floats are the integers with a mantissa of           *)
(* MantissaBits bits (CPython's have 53), and 1 + abs(score) is rounded to *)
(* the nearest of them, ties to the even mantissa, as IEEE 754 adds.       *)
(***************************************************************************)
EXTENDS Integers, Sequences, FiniteSets, TLC

VARIABLES
    file,         \* the backing file: None (absent) or Some(sequence of lines)
    initialized,  \* VecFSStorage._initialized
    entries,      \* VecFSStorage._entries: None or Some(list of entries)
    locked,       \* asyncio.Lock._locked
    waiters,      \* asyncio.Lock._waiters, in arrival order
    pc,           \* where each task is in its operation
    call,         \* each task's current (or last) call and its arguments
    full,         \* store's local `full` while the task awaits the append
    ret,          \* what each task's last call returned
    now           \* time.time() in milliseconds

vars == <<file, initialized, entries, locked, waiters, pc, call, full, ret, now>>

\* ---------------------------------------------------------------- bounds

MaxTime == 1
MaxScore == 2

\* ------------------------------------------------------------ option type

None == <<>>
Some(x) == <<x>>

\* ------------------------------------------------------------- arithmetic

Abs(x) == IF x < 0 THEN -x ELSE x

\* Rationals <<n, d>> with d > 0.
RatLeq(p, q) == p[1] * q[2] <= q[1] * p[2]
RatEq(p, q) == p[1] * q[2] = q[1] * p[2]
RatLess(p, q) == p[1] * q[2] < q[1] * p[2]
RatAdd(p, q) == <<p[1] * q[2] + q[1] * p[2], p[2] * q[2]>>

\* Mutant of FEEDBACK_RANK_WEIGHT: a weight of 1.
FeedbackWeightOne == <<1, 1>>

FEEDBACK_RANK_WEIGHT == <<1, 10>>

RECURSIVE SumOver(_, _)
SumOver(f, S) ==
    IF S = {} THEN 0
    ELSE LET k == CHOOSE x \in S : TRUE IN f[k] + SumOver(f, S \ {k})

\* ------------------------------------------------------------- sparse.py

\* dot_product: the sum over the keys of the smaller vector found in the other.
dot_product(v1, v2) ==
    LET a == IF Cardinality(DOMAIN v1) > Cardinality(DOMAIN v2) THEN v2 ELSE v1
        b == IF Cardinality(DOMAIN v1) > Cardinality(DOMAIN v2) THEN v1 ELSE v2
        both == {i \in DOMAIN a : i \in DOMAIN b}
    IN  SumOver([i \in both |-> a[i] * b[i]], both)

MaxNorm == 5

\* norm: total ** 0.5, exact on the vectors of the model.
norm(v) ==
    LET total == SumOver([i \in DOMAIN v |-> v[i] * v[i]], DOMAIN v)
    IN  CHOOSE r \in 0..MaxNorm : r * r = total

\* Mutant of cosine_similarity: no test for a norm of 0 before the division.
CosineUnguarded(v1, v2, v1_norm) ==
    LET n1 == IF v1_norm # None THEN v1_norm[1] ELSE norm(v1)
        n2 == norm(v2)
    IN  <<dot_product(v1, v2), n1 * n2>>

\* cosine_similarity: v1_norm is None or the norm the caller has computed.
cosine_similarity(v1, v2, v1_norm) ==
    LET n1 == IF v1_norm # None THEN v1_norm[1] ELSE norm(v1)
        n2 == norm(v2)
    IN  IF n1 = 0 \/ n2 = 0 THEN <<0, 1>>
        ELSE <<dot_product(v1, v2), n1 * n2>>

\* ------------------------------------------------------------ storage.py

MantissaBits == 4
MaxShift == 3

\* The float nearest to the integer n >= 0: n keeps its MantissaBits leading
\* bits, the rest is rounded off, a tie goes to the even mantissa.
FloatRound(n) ==
    LET e == CHOOSE x \in 0..MaxShift :
                 /\ n < 2^(MantissaBits + x)
                 /\ x = 0 \/ n >= 2^(MantissaBits + x - 1)
        step == 2^e
        q == n \div step
        r == n % step
    IN  IF 2 * r > step \/ (2 * r = step /\ q % 2 = 1) THEN (q + 1) * step
        ELSE q * step

\* Mutant of _feedback_boost: W * score, without the saturating quotient.
FeedbackBoostUnbounded(score) ==
    <<FEEDBACK_RANK_WEIGHT[1] * score, FEEDBACK_RANK_WEIGHT[2]>>

\* _feedback_boost: W * (score / (1 + abs(score))), the sum rounded to a float.
\* (The quotient of two floats s < d is at most the float below 1, and W times
\* it is below W, so the roundings of `/` and `*` cannot bring the boost to W;
\* the model keeps these two exact.)
_feedback_boost(score) ==
    <<FEEDBACK_RANK_WEIGHT[1] * score,
      FEEDBACK_RANK_WEIGHT[2] * FloatRound(1 + Abs(score))>>

_combined_rank(similarity, score) == RatAdd(similarity, _feedback_boost(score))

\* `x or 0` on a score that may be None.
ScoreOrZero(s) == IF s = None THEN 0 ELSE s[1]

\* `metadata or {}`: None and the empty map both give the empty map.
MetaOrEmpty(m) == IF m = "None" \/ m = "{}" THEN "{}" ELSE m

\* str(k) and int(k) on a vector key.
KeyNames == <<"0", "1", "2">>
KeyStr(k) == KeyNames[k + 1]
KeyInt(s) == CHOOSE k \in 0..(Len(KeyNames) - 1) : KeyNames[k + 1] = s

\* Mutant of _entry_to_jsonl_line: a null score is written as 0.
EntryToLineScoreOrZero(e) ==
    [e EXCEPT !.vector =
        IF DOMAIN @ # {}
        THEN [s \in {KeyStr(k) : k \in DOMAIN @} |-> @[KeyInt(s)]]
        ELSE @,
              !.score = Some(ScoreOrZero(@))]

\* _entry_to_jsonl_line: a non-empty vector gets string keys.
_entry_to_jsonl_line(e) ==
    [e EXCEPT !.vector =
        IF DOMAIN @ # {}
        THEN [s \in {KeyStr(k) : k \in DOMAIN @} |-> @[KeyInt(s)]]
        ELSE @]

\* A line of the file is a record (a JSON object with the fields of an entry) or
\* one of these, [junk |-> kind]:
\*   "blank"    the empty line
\*   "spaces"   white space only
\*   "broken"   text that json.loads rejects (JSONDecodeError)
\*   "number", "null", "boolean"   JSON values that `"vector" in entry` cannot
\*              be asked of (TypeError)
\*   "string", "array"   a JSON string or array without the item "vector"
Junk(kind) == [junk |-> kind]
IsEntry(x) == "junk" \notin DOMAIN x

\* Mutant of ParseSkips: lines that json.loads rejects are not caught.
ParseSkipsBlankOnly(line) == ~IsEntry(line) /\ line.junk \in {"blank", "spaces"}

\* _parse_line returns None (and an empty line is not parsed at all).
ParseSkips(line) == ~IsEntry(line) /\ line.junk \in {"blank", "spaces", "broken"}

\* _parse_line raises: json.loads gave a value that is no container, or the
\* line was rejected and nothing caught it.
ParseRaises(line) ==
    ~IsEntry(line) /\ ~ParseSkips(line) /\ line.junk \in {"number", "null", "boolean", "broken"}

\* _parse_line on a line that holds a JSON object or container: an entry gets its
\* vector keys back to int, a string or an array is returned as it is.
_parse_line(line) ==
    IF IsEntry(line)
    THEN [line EXCEPT !.vector = [k \in {KeyInt(s) : s \in DOMAIN @} |-> @[KeyStr(k)]]]
    ELSE line

ParseAll(lines) == [i \in 1..Len(lines) |-> _parse_line(lines[i])]
SerializeAll(es) == [i \in 1..Len(es) |-> _entry_to_jsonl_line(es[i])]

\* Mutant of EnsuredFile: write_text("") without the test for an existing file.
EnsuredFileTruncates == IF initialized THEN file ELSE Some(<<>>)

\* ensure_file: an absent file is created empty, an existing one is left alone.
EnsuredFile == IF initialized \/ file # None THEN file ELSE Some(<<>>)

\* The loop of _load_entries over the lines: what has been appended to the cache,
\* and whether a line made _parse_line raise (which ends the loop there).
RECURSIVE LoadLines(_)
LoadLines(lines) ==
    IF lines = <<>> THEN [cache |-> <<>>, raised |-> FALSE]
    ELSE LET r == LoadLines(SubSeq(lines, 1, Len(lines) - 1))
             line == lines[Len(lines)]
         IN  IF r.raised \/ ParseSkips(line) THEN r
             ELSE IF ParseRaises(line) THEN [cache |-> r.cache, raised |-> TRUE]
             ELSE [cache |-> Append(r.cache, _parse_line(line)), raised |-> FALSE]

\* Mutant of Loaded: _load_entries without its first two lines, the file is
\* read by every operation.
LoadedRereads == LoadLines(EnsuredFile[1]).cache

\* _load_entries: the cache when there is one, else what the loop appends.
Loaded == IF entries # None THEN entries[1] ELSE LoadLines(EnsuredFile[1]).cache

\* _load_entries raises.
LoadRaises == entries = None /\ LoadLines(EnsuredFile[1]).raised

\* search raises: in the load, or at `e.get` on a cached value that is no dict.
SearchRaises == LoadRaises \/ \E i \in 1..Len(Loaded) : ~IsEntry(Loaded[i])

\* The file and the flag after _load_entries.
FileAfterLoad == IF entries # None THEN file ELSE EnsuredFile
InitAfterLoad == IF entries # None THEN initialized ELSE TRUE

\* The index of the first entry with this id, 0 when there is none.
IndexOf(es, id) ==
    IF \E i \in 1..Len(es) : es[i].id = id
    THEN CHOOSE i \in 1..Len(es) : es[i].id = id /\ \A j \in 1..(i - 1) : es[j].id # id
    ELSE 0

\* Mutant of RemoveAt: `entries.pop()` drops the last entry, whatever i is.
RemoveLast(s, i) == SubSeq(s, 1, Len(s) - 1)

\* list.pop(i).
RemoveAt(s, i) == [j \in 1..(Len(s) - 1) |-> IF j < i THEN s[j] ELSE s[j + 1]]


\* Mutant of SliceTo: the slice is taken one too long, results[:limit + 1].
SliceToOneMore(s, limit) ==
    SubSeq(s, 1, IF limit + 1 < Len(s) THEN limit + 1 ELSE Len(s))

\* The list slice results[:limit], negative limits included.
SliceTo(s, limit) ==
    IF limit >= 0
    THEN SubSeq(s, 1, IF limit < Len(s) THEN limit ELSE Len(s))
    ELSE SubSeq(s, 1, IF Len(s) + limit > 0 THEN Len(s) + limit ELSE 0)

\* The sort key of search: _combined_rank(r["similarity"], r.get("score") or 0).
RankOf(r) == _combined_rank(r.similarity, ScoreOrZero(r.score))

\* Mutant of InsertDesc: an ascending sort that is then reversed, which turns the
\* order of equal keys around: an element goes before the elements of equal key.
InsertDescBeforeEqual(sorted, r) ==
    LET before == {p \in 1..Len(sorted) : RatLeq(RankOf(sorted[p]), RankOf(r))}
        at == IF before = {} THEN Len(sorted) + 1
              ELSE CHOOSE p \in before : \A q \in before : p <= q
    IN  SubSeq(sorted, 1, at - 1) \o <<r>> \o SubSeq(sorted, at, Len(sorted))

\* list.sort(key=..., reverse=True): descending and stable, an element goes
\* behind every element whose key is not smaller.
InsertDesc(sorted, r) ==
    LET before == {p \in 1..Len(sorted) : RatLess(RankOf(sorted[p]), RankOf(r))}
        at == IF before = {} THEN Len(sorted) + 1
              ELSE CHOOSE p \in before : \A q \in before : p <= q
    IN  SubSeq(sorted, 1, at - 1) \o <<r>> \o SubSeq(sorted, at, Len(sorted))

RECURSIVE SortDesc(_)
SortDesc(rs) ==
    IF rs = <<>> THEN <<>>
    ELSE InsertDesc(SortDesc(SubSeq(rs, 1, Len(rs) - 1)), rs[Len(rs)])

\* One result of search: the entry's fields and its similarity to the query.
ResultOf(e, query_vector, query_norm) ==
    [id |-> e.id, metadata |-> e.metadata, vector |-> e.vector, score |-> e.score,
     timestamp |-> e.timestamp,
     similarity |-> IF DOMAIN e.vector # {}
                    THEN cosine_similarity(query_vector, e.vector, Some(query_norm))
                    ELSE <<0, 1>>]

\* search on a loaded cache: rank every entry, sort, cut to limit.
SearchResults(es, query_vector, limit) ==
    LET query_norm == norm(query_vector)
        results == [i \in 1..Len(es) |-> ResultOf(es[i], query_vector, query_norm)]
    IN  SliceTo(SortDesc(results), limit)

\* ------------------------------------------------------------- server.py

\* A vector as the protocol layer receives it: a dense list, or a map with
\* string keys (JSON object keys are strings).
DenseInput(l) == [kind |-> "list", val |-> l]
MapInput(m) == [kind |-> "dict", val |-> m]

\* A map as Python holds it: its items <<key, value>> in insertion order, the
\* keys strings or integers, no key twice.
StrKey(s) == [kind |-> "str", val |-> s]
IntKey(n) == [kind |-> "int", val |-> n]
ItemsInput(items) == [kind |-> "items", val |-> items]

\* int(k) on a key: the integer itself, or the integer a string denotes ("01"
\* denotes 1, as "1" does).
KeyText == ("0" :> 0 @@ "1" :> 1 @@ "2" :> 2 @@ "01" :> 1)
IntOfKey(key) == IF key.kind = "int" THEN key.val ELSE KeyText[key.val]

\* Mutant of NormalizeItems: items with the value 0 are dropped, as they are
\* from a list.
NormalizeItemsDropsZeros(items) ==
    LET kept == {i \in 1..Len(items) : items[i][2] # 0}
    IN  [k \in {IntOfKey(items[i][1]) : i \in kept} |->
            LET last == CHOOSE i \in kept :
                            /\ IntOfKey(items[i][1]) = k
                            /\ \A j \in kept : IntOfKey(items[j][1]) = k => j <= i
            IN  items[last][2]]

\* {int(k): float(x) for k, x in v.items()}: the items are entered in order
\* under int(k), so of two keys with the same integer the later one stays.
NormalizeItems(items) ==
    [k \in {IntOfKey(items[i][1]) : i \in 1..Len(items)} |->
        LET last == CHOOSE i \in 1..Len(items) :
                        /\ IntOfKey(items[i][1]) = k
                        /\ \A j \in 1..Len(items) : IntOfKey(items[j][1]) = k => j <= i
        IN  items[last][2]]

\* normalize_vector_input: a list keeps its non-zero values under their index
\* (from 0), a map gets integer keys.
normalize_vector_input(raw) ==
    IF raw.kind = "list"
    THEN [k \in {i - 1 : i \in {j \in 1..Len(raw.val) : raw.val[j] # 0}} |-> raw.val[k + 1]]
    ELSE IF raw.kind = "items"
    THEN NormalizeItems(raw.val)
    ELSE [k \in {KeyInt(s) : s \in DOMAIN raw.val} |-> raw.val[KeyStr(k)]]

\* What else may arrive as a vector: a JSON number, boolean or null, and a
\* string, which the tools take for JSON text: of a list, a map, another value,
\* or of nothing json.loads accepts ("broken").
OtherInput(kind) == [kind |-> kind, val |-> <<>>]
TextInput(value) == [kind |-> "str", val |-> value]

\* Mutant of NormalizeResult: whatever is no list and no map counts as the
\* empty vector.
NormalizeResultLenient(raw) ==
    IF raw.kind \in {"list", "dict", "items"}
    THEN [kind |-> "dict", val |-> normalize_vector_input(raw)]
    ELSE [kind |-> "dict", val |-> <<>>]

\* normalize_vector_input with its last line: the sparse vector of a list or a
\* map, TypeError for anything else.
NormalizeResult(raw) ==
    IF raw.kind \in {"list", "dict", "items"}
    THEN [kind |-> "dict", val |-> normalize_vector_input(raw)]
    ELSE [kind |-> "error", val |-> "TypeError"]

\* The first lines of the search and memorize tools on a vector that is not
\* None: a string goes through json.loads (JSONDecodeError is a ValueError),
\* the value through normalize_vector_input.
ToolVector(vector) ==
    IF vector.kind = "str"
    THEN IF vector.val.kind = "broken"
         THEN [kind |-> "error", val |-> "JSONDecodeError"]
         ELSE NormalizeResult(vector.val)
    ELSE NormalizeResult(vector)

\* memorize's meta: `dict(metadata) if metadata else {}`, and the item "text"
\* when a text came with the call.
MemorizeMeta(metadata, text) ==
    IF text = None THEN MetaOrEmpty(metadata)
    ELSE IF MetaOrEmpty(metadata) = "{}" THEN "{text}" ELSE "m1+text"

\* Mutant of ToolSearchOut: the tool hands on what the storage returned.
ToolSearchOutEchoes(results) == results

\* The search tool's answer: of each result the five fields, not the vector.
ToolSearchOut(results) ==
    [i \in 1..Len(results) |->
        [id |-> results[i].id, metadata |-> results[i].metadata,
         score |-> results[i].score, timestamp |-> results[i].timestamp,
         similarity |-> results[i].similarity]]

\* ----------------------------------------------------------- sparsify.py

\* A dense vector is a sequence of integers; its values after l2_normalise are
\* rationals.
RatAbs(p) == <<Abs(p[1]), p[2]>>
SumSquares(dense) == SumOver([i \in 1..Len(dense) |-> dense[i] * dense[i]], 1..Len(dense))
HasIntegerNorm(dense) == \E r \in 0..MaxNorm : r * r = SumSquares(dense)

\* l2_normalise: every value over the norm; a zero vector is returned as it is.
l2_normalise(dense) ==
    LET n == CHOOSE r \in 0..MaxNorm : r * r = SumSquares(dense)
    IN  [i \in 1..Len(dense) |-> IF n = 0 THEN <<dense[i], 1>> ELSE <<dense[i], n>>]

\* Mutant of to_sparse_threshold: `abs(v) >= threshold`.
ToSparseThresholdInclusive(dense, threshold, normalise) ==
    LET values == IF normalise THEN l2_normalise(dense)
                  ELSE [i \in 1..Len(dense) |-> <<dense[i], 1>>]
        kept == {i \in 1..Len(values) : RatLeq(threshold, RatAbs(values[i]))}
    IN  [k \in {KeyStr(i - 1) : i \in kept} |-> values[KeyInt(k) + 1]]

\* to_sparse_threshold: the values (normalised first when asked) whose
\* magnitude is above the threshold, under str(i) for the index i from 0.
to_sparse_threshold(dense, threshold, normalise) ==
    LET values == IF normalise THEN l2_normalise(dense)
                  ELSE [i \in 1..Len(dense) |-> <<dense[i], 1>>]
        kept == {i \in 1..Len(values) : RatLess(threshold, RatAbs(values[i]))}
    IN  [k \in {KeyStr(i - 1) : i \in kept} |-> values[KeyInt(k) + 1]]

\* sorted(enumerate(values), key=lambda iv: abs(iv[1]), reverse=True): pairs
\* <<i, v>>, descending in abs(v) and stable, a pair goes behind every pair
\* whose magnitude is not smaller.
InsertByAbsDesc(sorted, iv) ==
    LET before == {p \in 1..Len(sorted) : RatLess(RatAbs(sorted[p][2]), RatAbs(iv[2]))}
        at == IF before = {} THEN Len(sorted) + 1
              ELSE CHOOSE p \in before : \A q \in before : p <= q
    IN  SubSeq(sorted, 1, at - 1) \o <<iv>> \o SubSeq(sorted, at, Len(sorted))

RECURSIVE SortByAbsDesc(_)
SortByAbsDesc(ivs) ==
    IF ivs = <<>> THEN <<>>
    ELSE InsertByAbsDesc(SortByAbsDesc(SubSeq(ivs, 1, Len(ivs) - 1)), ivs[Len(ivs)])

\* Mutant of to_sparse_topk: the first k pairs are returned without the test
\* `v != 0.0`.
ToSparseTopkKeepsZeros(dense, k, normalise) ==
    LET values == IF normalise THEN l2_normalise(dense)
                  ELSE [i \in 1..Len(dense) |-> <<dense[i], 1>>]
        indexed == SortByAbsDesc([i \in 1..Len(values) |-> <<i - 1, values[i]>>])
        first == SliceTo(indexed, k)
        kept == {p \in 1..Len(first) : TRUE}
    IN  [s \in {KeyStr(first[p][1]) : p \in kept} |-> values[KeyInt(s) + 1]]

\* to_sparse_topk: of the k pairs of largest magnitude, those whose value is
\* not 0, under str(i).
to_sparse_topk(dense, k, normalise) ==
    LET values == IF normalise THEN l2_normalise(dense)
                  ELSE [i \in 1..Len(dense) |-> <<dense[i], 1>>]
        indexed == SortByAbsDesc([i \in 1..Len(values) |-> <<i - 1, values[i]>>])
        first == SliceTo(indexed, k)
        kept == {p \in 1..Len(first) : first[p][2][1] # 0}
    IN  [s \in {KeyStr(first[p][1]) : p \in kept} |-> values[KeyInt(s) + 1]]

\* list.sort() on magnitudes: ascending.
InsertAsc(sorted, x) ==
    LET after == {p \in 1..Len(sorted) : RatLess(x, sorted[p])}
        at == IF after = {} THEN Len(sorted) + 1
              ELSE CHOOSE p \in after : \A q \in after : p <= q
    IN  SubSeq(sorted, 1, at - 1) \o <<x>> \o SubSeq(sorted, at, Len(sorted))

RECURSIVE SortAsc(_)
SortAsc(xs) ==
    IF xs = <<>> THEN <<>>
    ELSE InsertAsc(SortAsc(SubSeq(xs, 1, Len(xs) - 1)), xs[Len(xs)])

\* The magnitudes that magnitude_stats collects: abs(v) of every value of every
\* vector, each vector normalised first.
RECURSIVE Magnitudes(_)
Magnitudes(vectors) ==
    IF vectors = <<>> THEN <<>>
    ELSE LET normed == l2_normalise(vectors[Len(vectors)])
         IN  Magnitudes(SubSeq(vectors, 1, Len(vectors) - 1))
                 \o [i \in 1..Len(normed) |-> RatAbs(normed[i])]

\* A fraction in lowest terms (the same number; keeps the sums small).
RECURSIVE Gcd(_, _)
Gcd(a, b) == IF b = 0 THEN a ELSE Gcd(b, a % b)
Reduced(r) == LET g == Gcd(Abs(r[1]), r[2]) IN <<r[1] \div g, r[2] \div g>>

RECURSIVE RatSum(_)
RatSum(xs) ==
    IF xs = <<>> THEN <<0, 1>>
    ELSE Reduced(RatAdd(RatSum(SubSeq(xs, 1, Len(xs) - 1)), xs[Len(xs)]))

\* Mutant of PercentileIndex: int(p / 100.0 * n), the count instead of the last
\* index.
PercentileIndexOfCount(p, n) == (p * n) \div 100

\* percentile's idx = int(p / 100.0 * (n - 1)).
PercentileIndex(p, n) == (p * (n - 1)) \div 100

EmptyDict == [k \in {} |-> 0]

\* magnitude_stats: {} when there is no magnitude, else min, max, mean and the
\* five percentiles of the sorted magnitudes.
magnitude_stats(vectors) ==
    LET all_magnitudes == SortAsc(Magnitudes(vectors))
        n == Len(all_magnitudes)
        total == RatSum(all_magnitudes)
    IN  IF n = 0 THEN EmptyDict
        ELSE [min |-> all_magnitudes[1],
              max |-> all_magnitudes[n],
              mean |-> <<total[1], total[2] * n>>,
              p10 |-> all_magnitudes[PercentileIndex(10, n) + 1],
              p25 |-> all_magnitudes[PercentileIndex(25, n) + 1],
              p50 |-> all_magnitudes[PercentileIndex(50, n) + 1],
              p75 |-> all_magnitudes[PercentileIndex(75, n) + 1],
              p90 |-> all_magnitudes[PercentileIndex(90, n) + 1]]

\* round(x, 1) for x >= 0: the nearest multiple of one tenth, a tie to the even
\* one.  (On floats a tie is decided by the binary value of x; either way the
\* function is non-decreasing.)
RoundTenth(r) ==
    LET q == (r[1] * 10) \div r[2]
        rem == (r[1] * 10) % r[2]
        up == 2 * rem > r[2] \/ (2 * rem = r[2] /\ q % 2 = 1)
    IN  <<IF up THEN q + 1 ELSE q, 10>>

\* Mutant of RetainedPct: the share of the values the threshold drops.
RetainedPctDropped(dense, t) ==
    LET normed == l2_normalise(dense)
        total == Len(normed)
        kept == Cardinality({i \in 1..total : RatLeq(RatAbs(normed[i]), t)})
    IN  IF total # 0 THEN <<kept * 100, total>> ELSE <<0, 1>>

\* The share of one vector's values that threshold t keeps, in percent:
\* (kept / total * 100) if total else 0.0.
RetainedPct(dense, t) ==
    LET normed == l2_normalise(dense)
        total == Len(normed)
        kept == Cardinality({i \in 1..total : RatLess(t, RatAbs(normed[i]))})
    IN  IF total # 0 THEN <<kept * 100, total>> ELSE <<0, 1>>

\* sparsity_at_thresholds: for every threshold the mean over the vectors of the
\* retained share, rounded to one decimal; an entry per threshold, in the
\* order given (the dict is keyed by str(t)).
sparsity_at_thresholds(vectors, thresholds) ==
    [j \in 1..Len(thresholds) |->
        LET t == thresholds[j]
            retained_pcts == [i \in 1..Len(vectors) |-> RetainedPct(vectors[i], t)]
            total == RatSum(retained_pcts)
            mean_pct == IF Len(retained_pcts) # 0
                        THEN <<total[1], total[2] * Len(retained_pcts)>>
                        ELSE <<0, 1>>
        IN  [key |-> t, mean_retained_pct |-> RoundTenth(mean_pct)]]

\* ------------------------------------------------------------- config.py

DEFAULT_STORAGE_FILE == "./vecfs-data.jsonl"
DEFAULT_MCP_PORT == 3000
DEFAULT_EMBED_MODEL == "sentence-transformers:all-MiniLM-L6-v2"
DEFAULT_EMBED_THRESHOLD == <<1, 100>>

\* A value of the parsed YAML file: the key is absent, or it holds a string, an
\* integer or a float (a rational here).
Absent == [kind |-> "absent", val |-> <<>>]
StrVal(s) == [kind |-> "str", val |-> s]
IntVal(n) == [kind |-> "int", val |-> n]
FloatVal(x) == [kind |-> "float", val |-> x]

\* int(s) and float(s) on the texts that occur: the number the text denotes;
\* any other text raises ValueError.
IntText == ("4000" :> 4000 @@ "8080" :> 8080 @@ "128" :> 128 @@ "256" :> 256)
FloatText == ("0.05" :> <<1, 20>> @@ "0.25" :> <<1, 4>>)

\* os.environ.get(NAME) is given and not empty.
EnvSet(e) == e # None /\ e # Some("")

\* load_config raises: int(mcp_port) on a port that the file gives as a string
\* that is no number (line 107 has no try).
LoadConfigRaises(cfg) == cfg.port.kind = "str" /\ cfg.port.val \notin DOMAIN IntText

\* load_config, setting by setting (lines 99-149); cfg is what the file gives
\* under storage.file, mcp.port, embed.model, embed.dims and embed.threshold,
\* env the five environment variables (None when unset).
load_config(cfg, env) ==
    LET storage_file ==
            IF EnvSet(env.VECFS_FILE) THEN env.VECFS_FILE[1]
            ELSE IF cfg.file.kind = "str" THEN cfg.file.val
            ELSE DEFAULT_STORAGE_FILE
        file_port ==
            IF cfg.port.kind = "str" THEN IntText[cfg.port.val]
            ELSE IF cfg.port.kind = "int" THEN cfg.port.val
            ELSE DEFAULT_MCP_PORT
        mcp_port ==
            IF EnvSet(env.PORT) /\ env.PORT[1] \in DOMAIN IntText
            THEN IntText[env.PORT[1]]
            ELSE file_port
        model ==
            IF env.VECFS_EMBED_MODEL # None THEN env.VECFS_EMBED_MODEL[1]
            ELSE IF cfg.model.kind = "str" THEN cfg.model.val
            ELSE DEFAULT_EMBED_MODEL
        file_dims ==
            IF cfg.dims.kind = "int" THEN Some(cfg.dims.val)
            ELSE IF cfg.dims.kind = "str" /\ cfg.dims.val \in DOMAIN IntText
                 THEN Some(IntText[cfg.dims.val])
            ELSE None
        dims ==
            IF file_dims = None /\ EnvSet(env.VECFS_EMBED_DIMS)
            THEN IF env.VECFS_EMBED_DIMS[1] \in DOMAIN IntText
                 THEN Some(IntText[env.VECFS_EMBED_DIMS[1]])
                 ELSE None
            ELSE file_dims
        file_threshold ==
            IF cfg.threshold.kind = "str"
            THEN IF cfg.threshold.val \in DOMAIN FloatText
                 THEN FloatText[cfg.threshold.val]
                 ELSE DEFAULT_EMBED_THRESHOLD
            ELSE IF cfg.threshold.kind = "float" THEN cfg.threshold.val
            ELSE IF cfg.threshold.kind = "int" THEN <<cfg.threshold.val, 1>>
            ELSE DEFAULT_EMBED_THRESHOLD
        threshold ==
            IF EnvSet(env.VECFS_EMBED_THRESHOLD)
                   /\ env.VECFS_EMBED_THRESHOLD[1] \in DOMAIN FloatText
            THEN FloatText[env.VECFS_EMBED_THRESHOLD[1]]
            ELSE file_threshold
    IN  [storage_file |-> storage_file, mcp_port |-> mcp_port, model |-> model,
         dims |-> dims, threshold |-> threshold]

\* ------------------------------------------------------------ the callers

Tasks == {"t1", "t2"}

NoCall == [op |-> "none"]
NoRet == [kind |-> "none"]
BoolRet(b) == [kind |-> "bool", val |-> b]
NoneRet == [kind |-> "None"]
NumRet(x) == [kind |-> "number", val |-> x]
ErrRet(e) == [kind |-> "error", val |-> e]
ListRet(l) == [kind |-> "list", val |-> l]

Mutating == {"store", "update_score", "delete"}
Suspended == {"store_persist_all", "store_persist_append",
              "update_persist_all", "delete_persist_all"}

Init ==
    /\ file \in {None, Some(<<>>)}
    /\ initialized = FALSE
    /\ entries = None
    /\ locked = FALSE
    /\ waiters = <<>>
    /\ pc = [t \in Tasks |-> "idle"]
    /\ call = [t \in Tasks |-> NoCall]
    /\ full = [t \in Tasks |-> None]
    /\ ret = [t \in Tasks |-> NoRet]
    /\ now = 0

\* Mutant of LockFree: acquire looks at the holder only, so a new caller takes a
\* released lock ahead of the waiters.
LockFreeBarges == ~locked

\* Mutant of LockFree: acquire looks at the waiters only, not at the holder.
LockFreeIgnoresHolder == waiters = <<>>

\* Lock.acquire's fast path: the lock is free and nobody waits for it.
LockFree == ~locked /\ waiters = <<>>

\* A task may start a call when it is in none.
CanCall(t) == pc[t] \in {"idle", "done"}

\* Mutant of StoreBody: the replace branch updates the vector and the metadata of
\* the old record and keeps its score and timestamp.
StoreBodyKeepsScore(t, c) ==
    LET es == Loaded
        e == [id |-> c.id, metadata |-> MetaOrEmpty(c.metadata), vector |-> c.vector,
              score |-> c.score, timestamp |-> now]
        i == IndexOf(es, c.id)
    IN  /\ entries' = Some(IF i # 0
                           THEN [es EXCEPT ![i].vector = e.vector, ![i].metadata = e.metadata]
                           ELSE Append(es, e))
        /\ pc' = [pc EXCEPT ![t] = IF i # 0 THEN "store_persist_all"
                                   ELSE "store_persist_append"]
        /\ full' = [full EXCEPT ![t] = Some(e)]
        /\ locked' = TRUE
        /\ file' = FileAfterLoad
        /\ initialized' = InitAfterLoad
        /\ ret' = [ret EXCEPT ![t] = NoRet]
        /\ UNCHANGED now

\* Mutant of StoreBody: the replace branch has no `return`, so the loop falls
\* through to the append as well.
StoreBodyFallsThrough(t, c) ==
    LET es == Loaded
        e == [id |-> c.id, metadata |-> MetaOrEmpty(c.metadata), vector |-> c.vector,
              score |-> c.score, timestamp |-> now]
        i == IndexOf(es, c.id)
    IN  /\ entries' = Some(Append(IF i # 0 THEN [es EXCEPT ![i] = e] ELSE es, e))
        /\ pc' = [pc EXCEPT ![t] = "store_persist_append"]
        /\ full' = [full EXCEPT ![t] = Some(e)]
        /\ locked' = TRUE
        /\ file' = IF i # 0 THEN Some(SerializeAll([es EXCEPT ![i] = e])) ELSE FileAfterLoad
        /\ initialized' = InitAfterLoad
        /\ ret' = [ret EXCEPT ![t] = NoRet]
        /\ UNCHANGED now

\* store, from the lock to its first await (lines 109-124).
StoreBody(t, c) ==
    LET es == Loaded
        e == [id |-> c.id, metadata |-> MetaOrEmpty(c.metadata), vector |-> c.vector,
              score |-> c.score, timestamp |-> now]
        i == IndexOf(es, c.id)
    IN  /\ entries' = Some(IF i # 0 THEN [es EXCEPT ![i] = e] ELSE Append(es, e))
        /\ pc' = [pc EXCEPT ![t] = IF i # 0 THEN "store_persist_all"
                                   ELSE "store_persist_append"]
        /\ full' = [full EXCEPT ![t] = Some(e)]
        /\ locked' = TRUE
        /\ file' = FileAfterLoad
        /\ initialized' = InitAfterLoad
        /\ ret' = [ret EXCEPT ![t] = NoRet]
        /\ UNCHANGED now

\* Mutant of UpdateBody: the score is set to the adjustment instead of raised by it.
UpdateBodyAssigns(t, c) ==
    LET es == Loaded
        i == IndexOf(es, c.id)
    IN  /\ entries' = Some(IF i # 0
                           THEN [es EXCEPT ![i].score = Some(c.score_adjustment)]
                           ELSE es)
        /\ pc' = [pc EXCEPT ![t] = IF i # 0 THEN "update_persist_all" ELSE "done"]
        /\ ret' = [ret EXCEPT ![t] = IF i # 0 THEN NoRet ELSE BoolRet(FALSE)]
        /\ locked' = (i # 0)
        /\ file' = FileAfterLoad
        /\ initialized' = InitAfterLoad
        /\ UNCHANGED <<full, now>>

\* Mutant of UpdateBody: the entry also gets the time of the update.
UpdateBodyStamps(t, c) ==
    LET es == Loaded
        i == IndexOf(es, c.id)
    IN  /\ entries' = Some(IF i # 0
                           THEN [es EXCEPT ![i].score =
                                    Some(ScoreOrZero(@) + c.score_adjustment),
                                           ![i].timestamp = now]
                           ELSE es)
        /\ pc' = [pc EXCEPT ![t] = IF i # 0 THEN "update_persist_all" ELSE "done"]
        /\ ret' = [ret EXCEPT ![t] = IF i # 0 THEN NoRet ELSE BoolRet(FALSE)]
        /\ locked' = (i # 0)
        /\ file' = FileAfterLoad
        /\ initialized' = InitAfterLoad
        /\ UNCHANGED <<full, now>>

\* update_score, from the lock to its await or its return (lines 160-167).
UpdateBody(t, c) ==
    LET es == Loaded
        i == IndexOf(es, c.id)
    IN  /\ entries' = Some(IF i # 0
                           THEN [es EXCEPT ![i].score =
                                    Some(ScoreOrZero(@) + c.score_adjustment)]
                           ELSE es)
        /\ pc' = [pc EXCEPT ![t] = IF i # 0 THEN "update_persist_all" ELSE "done"]
        /\ ret' = [ret EXCEPT ![t] = IF i # 0 THEN NoRet ELSE BoolRet(FALSE)]
        /\ locked' = (i # 0)
        /\ file' = FileAfterLoad
        /\ initialized' = InitAfterLoad
        /\ UNCHANGED <<full, now>>

\* Mutant of DeleteBody: the pop is outside the loop's `if`, so a delete that
\* finds nothing still pops the last entry it looked at.
DeleteBodyPopsLast(t, c) ==
    LET es == Loaded
        i == IndexOf(es, c.id)
    IN  /\ entries' = Some(IF i # 0 THEN RemoveAt(es, i)
                           ELSE SubSeq(es, 1, Len(es) - 1))
        /\ pc' = [pc EXCEPT ![t] = IF i # 0 THEN "delete_persist_all" ELSE "done"]
        /\ ret' = [ret EXCEPT ![t] = IF i # 0 THEN NoRet ELSE BoolRet(FALSE)]
        /\ locked' = (i # 0)
        /\ file' = FileAfterLoad
        /\ initialized' = InitAfterLoad
        /\ UNCHANGED <<full, now>>

\* delete, from the lock to its await or its return (lines 171-178).
DeleteBody(t, c) ==
    LET es == Loaded
        i == IndexOf(es, c.id)
    IN  /\ entries' = Some(IF i # 0 THEN RemoveAt(es, i) ELSE es)
        /\ pc' = [pc EXCEPT ![t] = IF i # 0 THEN "delete_persist_all" ELSE "done"]
        /\ ret' = [ret EXCEPT ![t] = IF i # 0 THEN NoRet ELSE BoolRet(FALSE)]
        /\ locked' = (i # 0)
        /\ file' = FileAfterLoad
        /\ initialized' = InitAfterLoad
        /\ UNCHANGED <<full, now>>

MutBody(t, c) ==
    CASE c.op = "store" -> StoreBody(t, c)
      [] c.op = "update_score" -> UpdateBody(t, c)
      [] c.op = "delete" -> DeleteBody(t, c)

\* The lines of a file that are no records.
SkippedOf(lines) == SelectSeq(lines, LAMBDA l : ~IsEntry(l))

\* Mutant of PersistAllFile: the rewrite puts the lines the load skipped back,
\* behind the lines of the cache.
PersistAllFileKeepsSkipped ==
    IF entries = None THEN file
    ELSE Some(SerializeAll(entries[1]) \o SkippedOf(IF file = None THEN <<>> ELSE file[1]))

\* _persist_all: no cache, no write; else the whole file is rewritten from the cache.
PersistAllFile == IF entries = None THEN file ELSE Some(SerializeAll(entries[1]))

\* Mutant of PersistAppendFile: the file is opened with "w", which truncates it.
PersistAppendTruncates(e) == Some(<<_entry_to_jsonl_line(e)>>)

\* _persist_append: open(path, "a") creates a missing file, and writes one line at its end.
PersistAppendFile(e) ==
    Some((IF file = None THEN <<>> ELSE file[1]) \o <<_entry_to_jsonl_line(e)>>)

\* A task ends its call: `async with` releases the lock, the caller gets `r`.
Return(t, r) ==
    /\ pc' = [pc EXCEPT ![t] = "done"]
    /\ ret' = [ret EXCEPT ![t] = r]
    /\ full' = [full EXCEPT ![t] = None]
    /\ locked' = FALSE

MaxFileLen == 2

\* Mutant of Throw: the lock is taken with acquire() and released after the
\* write, without try/finally, so an exception leaves it taken.
ThrowKeepsLock(t, e) ==
    /\ pc' = [pc EXCEPT ![t] = "done"]
    /\ ret' = [ret EXCEPT ![t] = ErrRet(e)]
    /\ full' = [full EXCEPT ![t] = None]
    /\ locked' = locked

\* An exception leaves the operation: `async with` releases the lock on the way
\* out, the caller gets the exception.
Throw(t, e) ==
    /\ pc' = [pc EXCEPT ![t] = "done"]
    /\ ret' = [ret EXCEPT ![t] = ErrRet(e)]
    /\ full' = [full EXCEPT ![t] = None]
    /\ locked' = FALSE

\* What a write that raises OSError may leave of the file.  open "a" fails, or
\* the line does not get to the file: the file is as before.  write_text opens
\* with "w": the file is as before when the open fails, and cut to some of the
\* new lines when the write fails.
FailedWriteFiles(t) ==
    IF pc[t] = "store_persist_append"
    THEN {file}
    ELSE {file} \cup {Some(SubSeq(PersistAllFile[1], 1, k)) :
                          k \in 0..(Len(PersistAllFile[1]) - 1)}

\* The score a model run may reach stays within MaxScore.
ScoreInBound(c) ==
    LET i == IndexOf(Loaded, c.id)
    IN  i # 0 => Abs(ScoreOrZero(Loaded[i].score) + c.score_adjustment) <= MaxScore

\* ---------------------------------------------------------------- actions

\* A task calls store and gets the lock at once.
Store(t, c) ==
    /\ CanCall(t) /\ LockFree
    /\ call' = [call EXCEPT ![t] = c]
    /\ StoreBody(t, c)
    /\ UNCHANGED waiters

\* A task calls update_score and gets the lock at once.
UpdateScore(t, c) ==
    /\ CanCall(t) /\ LockFree /\ ScoreInBound(c)
    /\ call' = [call EXCEPT ![t] = c]
    /\ UpdateBody(t, c)
    /\ UNCHANGED waiters

\* A task calls delete and gets the lock at once.
Delete(t, c) ==
    /\ CanCall(t) /\ LockFree
    /\ call' = [call EXCEPT ![t] = c]
    /\ DeleteBody(t, c)
    /\ UNCHANGED waiters

\* A task calls a mutating operation while the lock is taken: Lock.acquire
\* queues it behind the earlier waiters.
Wait(t, c) ==
    /\ CanCall(t) /\ ~LockFree
    /\ c.op = "update_score" => ScoreInBound(c)
    /\ call' = [call EXCEPT ![t] = c]
    /\ waiters' = Append(waiters, t)
    /\ pc' = [pc EXCEPT ![t] = "waiting"]
    /\ ret' = [ret EXCEPT ![t] = NoRet]
    /\ UNCHANGED <<file, initialized, entries, locked, full, now>>

\* Lock.release woke the first waiter: it takes the lock and runs its operation.
Resume(t) ==
    /\ pc[t] = "waiting" /\ ~locked /\ waiters # <<>> /\ Head(waiters) = t
    /\ waiters' = Tail(waiters)
    /\ MutBody(t, call[t])
    /\ UNCHANGED call

\* Mutant of StoreRewrite: the replace path returns True, as the append path does.
StoreRewriteReturnsTrue(t) ==
    /\ pc[t] = "store_persist_all"
    /\ file' = PersistAllFile
    /\ Return(t, BoolRet(TRUE))
    /\ UNCHANGED <<initialized, entries, waiters, call, now>>

\* store, replace path: `await self._persist_all()`, then `return False`.
StoreRewrite(t) ==
    /\ pc[t] = "store_persist_all"
    /\ file' = PersistAllFile
    /\ Return(t, BoolRet(FALSE))
    /\ UNCHANGED <<initialized, entries, waiters, call, now>>

\* Mutant of StoreAppend: the new path, too, rewrites the file from the cache.
StoreAppendRewrites(t) ==
    /\ pc[t] = "store_persist_append"
    /\ file' = PersistAllFile
    /\ Return(t, BoolRet(TRUE))
    /\ UNCHANGED <<initialized, entries, waiters, call, now>>

\* store, new path: `await self._persist_append(full)`, then `return True`.
StoreAppend(t) ==
    /\ pc[t] = "store_persist_append"
    /\ file' = PersistAppendFile(full[t][1])
    /\ Return(t, BoolRet(TRUE))
    /\ UNCHANGED <<initialized, entries, waiters, call, now>>

\* update_score, found: `await self._persist_all()`, then `return True`.
UpdatePersist(t) ==
    /\ pc[t] = "update_persist_all"
    /\ file' = PersistAllFile
    /\ Return(t, BoolRet(TRUE))
    /\ UNCHANGED <<initialized, entries, waiters, call, now>>

\* delete, found: `await self._persist_all()`, then `return True`.
DeletePersist(t) ==
    /\ pc[t] = "delete_persist_all"
    /\ file' = PersistAllFile
    /\ Return(t, BoolRet(TRUE))
    /\ UNCHANGED <<initialized, entries, waiters, call, now>>

\* The awaited write of store, update_score or delete raises OSError: nothing
\* catches it, nothing is written again, the cache stays as the operation left it.
\* (Appends after failed rewrites make the file longer than the cache; the
\* model lets writes fail while the file has at most MaxFileLen lines.)
PersistFails(t) ==
    /\ pc[t] \in Suspended
    /\ file # None /\ Len(file[1]) <= MaxFileLen
    /\ file' \in FailedWriteFiles(t)
    /\ Throw(t, "OSError")
    /\ UNCHANGED <<initialized, entries, waiters, call, now>>

\* Mutant of Search: search reads the file itself, every time, and makes what
\* it read the cache.
SearchReloads(t, c) ==
    /\ CanCall(t) /\ ~SearchRaises
    /\ call' = [call EXCEPT ![t] = c]
    /\ entries' = Some(LoadLines(EnsuredFile[1]).cache)
    /\ file' = EnsuredFile
    /\ initialized' = TRUE
    /\ ret' = [ret EXCEPT ![t] = ListRet(SearchResults(LoadLines(EnsuredFile[1]).cache,
                                                       c.query_vector, c.limit))]
    /\ pc' = [pc EXCEPT ![t] = "done"]
    /\ UNCHANGED <<locked, waiters, full, now>>

\* Mutant of Search: the cache itself is sorted by rank (list.sort in place).
SearchSortsCache(t, c) ==
    /\ CanCall(t) /\ ~SearchRaises
    /\ call' = [call EXCEPT ![t] = c]
    /\ entries' = Some(LET sorted == SearchResults(Loaded, c.query_vector, Len(Loaded))
                       IN  [i \in 1..Len(sorted) |->
                               [id |-> sorted[i].id, metadata |-> sorted[i].metadata,
                                vector |-> sorted[i].vector, score |-> sorted[i].score,
                                timestamp |-> sorted[i].timestamp]])
    /\ file' = FileAfterLoad
    /\ initialized' = InitAfterLoad
    /\ ret' = [ret EXCEPT ![t] = ListRet(SearchResults(Loaded, c.query_vector, c.limit))]
    /\ pc' = [pc EXCEPT ![t] = "done"]
    /\ UNCHANGED <<locked, waiters, full, now>>

\* search: no lock and no await that suspends, one step from call to return.
Search(t, c) ==
    /\ CanCall(t) /\ ~SearchRaises
    /\ call' = [call EXCEPT ![t] = c]
    /\ entries' = Some(Loaded)
    /\ file' = FileAfterLoad
    /\ initialized' = InitAfterLoad
    /\ ret' = [ret EXCEPT ![t] = ListRet(SearchResults(Loaded, c.query_vector, c.limit))]
    /\ pc' = [pc EXCEPT ![t] = "done"]
    /\ UNCHANGED <<locked, waiters, full, now>>

\* search raises, out of _load_entries or out of its loop over the cache; the
\* cache keeps what _load_entries had appended.
SearchFails(t, c) ==
    /\ CanCall(t) /\ SearchRaises
    /\ call' = [call EXCEPT ![t] = c]
    /\ entries' = Some(Loaded)
    /\ file' = FileAfterLoad
    /\ initialized' = InitAfterLoad
    /\ ret' = [ret EXCEPT ![t] = ErrRet(IF LoadRaises THEN "TypeError"
                                        ELSE "AttributeError")]
    /\ pc' = [pc EXCEPT ![t] = "done"]
    /\ UNCHANGED <<locked, waiters, full, now>>

\* ensure_file, called by a user of the storage.
EnsureFile(t) ==
    /\ CanCall(t)
    /\ call' = [call EXCEPT ![t] = [op |-> "ensure_file"]]
    /\ file' = EnsuredFile
    /\ initialized' = TRUE
    /\ ret' = [ret EXCEPT ![t] = NoneRet]
    /\ pc' = [pc EXCEPT ![t] = "done"]
    /\ UNCHANGED <<entries, locked, waiters, full, now>>

\* A new VecFSStorage is made for the same path while no call is running: no
\* cache, not initialized, a lock of its own.
Reopen ==
    /\ \A t \in Tasks : CanCall(t)
    /\ entries # None
    /\ entries' = None
    /\ initialized' = FALSE
    /\ locked' = FALSE
    /\ waiters' = <<>>
    /\ UNCHANGED <<file, pc, call, full, ret, now>>

\* _feedback_boost applied to the score the task holds.
FeedbackBoost(t) ==
    /\ pc[t] = "idle" /\ call[t].op = "_feedback_boost"
    /\ ret' = [ret EXCEPT ![t] = NumRet(_feedback_boost(call[t].score))]
    /\ pc' = [pc EXCEPT ![t] = "done"]
    /\ UNCHANGED <<file, initialized, entries, locked, waiters, call, full, now>>

\* cosine_similarity applied to the arguments the task holds.
CosineSimilarity(t) ==
    /\ pc[t] = "idle" /\ call[t].op = "cosine_similarity"
    /\ ret' = [ret EXCEPT ![t] =
                  NumRet(cosine_similarity(call[t].v1, call[t].v2, call[t].v1_norm))]
    /\ pc' = [pc EXCEPT ![t] = "done"]
    /\ UNCHANGED <<file, initialized, entries, locked, waiters, call, full, now>>

\* to_sparse_threshold applied to the arguments the task holds.
ToSparseThreshold(t) ==
    /\ pc[t] = "idle" /\ call[t].op = "to_sparse_threshold"
    /\ ret' = [ret EXCEPT ![t] =
                  [kind |-> "dict",
                   val |-> to_sparse_threshold(call[t].dense, call[t].threshold,
                                               call[t].normalise)]]
    /\ pc' = [pc EXCEPT ![t] = "done"]
    /\ UNCHANGED <<file, initialized, entries, locked, waiters, call, full, now>>

\* to_sparse_topk applied to the arguments the task holds.
ToSparseTopk(t) ==
    /\ pc[t] = "idle" /\ call[t].op = "to_sparse_topk"
    /\ ret' = [ret EXCEPT ![t] =
                  [kind |-> "dict",
                   val |-> to_sparse_topk(call[t].dense, call[t].k, call[t].normalise)]]
    /\ pc' = [pc EXCEPT ![t] = "done"]
    /\ UNCHANGED <<file, initialized, entries, locked, waiters, call, full, now>>

\* magnitude_stats applied to the batch the task holds.
MagnitudeStats(t) ==
    /\ pc[t] = "idle" /\ call[t].op = "magnitude_stats"
    /\ ret' = [ret EXCEPT ![t] = [kind |-> "dict", val |-> magnitude_stats(call[t].vectors)]]
    /\ pc' = [pc EXCEPT ![t] = "done"]
    /\ UNCHANGED <<file, initialized, entries, locked, waiters, call, full, now>>

\* sparsity_at_thresholds applied to the batch and thresholds the task holds.
SparsityAtThresholds(t) ==
    /\ pc[t] = "idle" /\ call[t].op = "sparsity_at_thresholds"
    /\ ret' = [ret EXCEPT ![t] = [kind |-> "dict",
                                  val |-> sparsity_at_thresholds(call[t].vectors, call[t].thresholds)]]
    /\ pc' = [pc EXCEPT ![t] = "done"]
    /\ UNCHANGED <<file, initialized, entries, locked, waiters, call, full, now>>

\* load_config on the file values and the environment the task holds.
LoadConfig(t) ==
    /\ pc[t] = "idle" /\ call[t].op = "load_config"
    /\ ret' = [ret EXCEPT ![t] =
                  IF LoadConfigRaises(call[t].cfg) THEN ErrRet("ValueError")
                  ELSE [kind |-> "config", val |-> load_config(call[t].cfg, call[t].env)]]
    /\ pc' = [pc EXCEPT ![t] = "done"]
    /\ UNCHANGED <<file, initialized, entries, locked, waiters, call, full, now>>

\* normalize_vector_input applied to the value the task holds.
NormalizeVectorInput(t) ==
    /\ pc[t] = "idle" /\ call[t].op = "normalize_vector_input"
    /\ ret' = [ret EXCEPT ![t] = NormalizeResult(call[t].raw)]
    /\ pc' = [pc EXCEPT ![t] = "done"]
    /\ UNCHANGED <<file, initialized, entries, locked, waiters, call, full, now>>

\* The search tool of the protocol layer, called with a vector: the vector is
\* normalised, the storage searched, and the answer built from the results.
ToolSearch(t, c) ==
    /\ CanCall(t) /\ ~SearchRaises
    /\ ToolVector(c.vector).kind # "error"
    /\ call' = [call EXCEPT ![t] = c]
    /\ entries' = Some(Loaded)
    /\ file' = FileAfterLoad
    /\ initialized' = InitAfterLoad
    /\ ret' = [ret EXCEPT ![t] = ListRet(ToolSearchOut(
                  SearchResults(Loaded, ToolVector(c.vector).val, c.limit)))]
    /\ pc' = [pc EXCEPT ![t] = "done"]
    /\ UNCHANGED <<locked, waiters, full, now>>

\* The search or the memorize tool called with a vector that json.loads or
\* normalize_vector_input refuses: the exception leaves the tool before the
\* storage is called.
ToolRejects(t, c) ==
    /\ CanCall(t)
    /\ ToolVector(c.vector).kind = "error"
    /\ call' = [call EXCEPT ![t] = c]
    /\ ret' = [ret EXCEPT ![t] = ToolVector(c.vector)]
    /\ pc' = [pc EXCEPT ![t] = "done"]
    /\ UNCHANGED <<file, initialized, entries, locked, waiters, full, now>>

\* The feedback tool: the storage's update_score called with the id and the
\* adjustment; from there on the call is the storage's update_score (the tool's
\* answer is a text that says whether the id was found).
ToolFeedback(t, c) ==
    /\ CanCall(t) /\ LockFree
    /\ LET uc == [op |-> "update_score", id |-> c.id,
                  score_adjustment |-> c.scoreAdjustment]
       IN  /\ ScoreInBound(uc)
           /\ call' = [call EXCEPT ![t] = uc]
           /\ UpdateBody(t, uc)
    /\ UNCHANGED waiters

\* Mutant of ToolMemorize: the tool passes no score of its own, an entry that
\* is there keeps the score it has.
ToolMemorizeKeepsScore(t, c) ==
    /\ CanCall(t) /\ LockFree
    /\ ToolVector(c.vector).kind # "error"
    /\ LET sc == [op |-> "store", id |-> c.id, vector |-> ToolVector(c.vector).val,
                  metadata |-> MemorizeMeta(c.metadata, c.text), score |-> Some(0)]
       IN  /\ call' = [call EXCEPT ![t] = sc]
           /\ StoreBodyKeepsScore(t, sc)
    /\ UNCHANGED waiters

\* The memorize tool called with a vector: the vector is normalised and the
\* storage's store called with it, the meta data and the score 0.0; from there
\* on the call is the storage's store (the tool's answer is the text
\* "Stored entry: <id>" whatever store returns).
ToolMemorize(t, c) ==
    /\ CanCall(t) /\ LockFree
    /\ ToolVector(c.vector).kind # "error"
    /\ LET sc == [op |-> "store", id |-> c.id, vector |-> ToolVector(c.vector).val,
                  metadata |-> MemorizeMeta(c.metadata, c.text), score |-> Some(0)]
       IN  /\ call' = [call EXCEPT ![t] = sc]
           /\ StoreBody(t, sc)
    /\ UNCHANGED waiters

\* The clock advances.
Tick ==
    /\ now < MaxTime
    /\ now' = now + 1
    /\ UNCHANGED <<file, initialized, entries, locked, waiters, pc, call, full, ret>>

\* ------------------------------------------------------- inputs and specs

V0 == (0 :> 1)
V34 == (0 :> 3 @@ 1 :> 4)
V43 == (0 :> 4 @@ 1 :> 3)
VEmpty == <<>>

StoreCall(id, v, m, s) ==
    [op |-> "store", id |-> id, vector |-> v, metadata |-> m, score |-> s]
UpdateCall(id, d) == [op |-> "update_score", id |-> id, score_adjustment |-> d]
DeleteCall(id) == [op |-> "delete", id |-> id]
SearchCall(q, l) == [op |-> "search", query_vector |-> q, limit |-> l]

\* Concurrent callers: two tasks, two ids.
Ids == {"a", "b"}
StoreCalls == {StoreCall(id, V0, "m1", Some(0)) : id \in Ids}
UpdateCalls == {UpdateCall(id, 1) : id \in Ids}
DeleteCalls == {DeleteCall(id) : id \in Ids}
SearchCalls == {SearchCall(V0, 1)}

Next ==
    \/ \E t \in Tasks : \E c \in StoreCalls : Store(t, c)
    \/ \E t \in Tasks : \E c \in UpdateCalls : UpdateScore(t, c)
    \/ \E t \in Tasks : \E c \in DeleteCalls : Delete(t, c)
    \/ \E t \in Tasks : \E c \in StoreCalls \cup UpdateCalls \cup DeleteCalls : Wait(t, c)
    \/ \E t \in Tasks : Resume(t)
    \/ \E t \in Tasks : StoreRewrite(t)
    \/ \E t \in Tasks : StoreAppend(t)
    \/ \E t \in Tasks : UpdatePersist(t)
    \/ \E t \in Tasks : DeletePersist(t)
    \/ \E t \in Tasks : \E c \in SearchCalls : Search(t, c)
    \/ Tick

Spec == Init /\ [][Next]_vars


\* One caller at a time, stores that differ in every field, scores up and down.
SeqStoreCalls ==
    {StoreCall(id, V0, "None", Some(0)) : id \in Ids}
    \cup {StoreCall(id, V34, "m1", None) : id \in Ids}
SeqUpdateCalls == {UpdateCall(id, d) : id \in Ids, d \in {1, -1}}
SeqDeleteCalls == {DeleteCall(id) : id \in Ids}
SeqSearchCalls == {SearchCall(V0, 2)}

NextSeq ==
    \/ \E c \in SeqStoreCalls : Store("t1", c)
    \/ \E c \in SeqUpdateCalls : UpdateScore("t1", c)
    \/ \E c \in SeqDeleteCalls : Delete("t1", c)
    \/ StoreRewrite("t1")
    \/ StoreAppend("t1")
    \/ UpdatePersist("t1")
    \/ DeletePersist("t1")
    \/ \E c \in SeqSearchCalls : Search("t1", c)
    \/ Tick

SpecSeq == Init /\ [][NextSeq]_vars

\* One caller at a time, three ids, vectors and scores that rank differently
\* and that tie, searches with every limit up to MaxLimit.
MaxLimit == 3
Ids3 == {"a", "b", "c"}
RankStoreCalls ==
    {StoreCall(id, v, "m1", s) : id \in Ids3, v \in {V0, V34, VEmpty},
                                 s \in {None, Some(0), Some(1)}}
RankDeleteCalls == {DeleteCall(id) : id \in Ids3}
RankSearchCalls == {SearchCall(q, l) : q \in {V0, V43}, l \in 0..MaxLimit}

NextRank ==
    \/ \E c \in RankStoreCalls : Store("t1", c)
    \/ \E c \in RankDeleteCalls : Delete("t1", c)
    \/ StoreRewrite("t1")
    \/ StoreAppend("t1")
    \/ DeletePersist("t1")
    \/ \E c \in RankSearchCalls : Search("t1", c)

SpecRank == Init /\ [][NextRank]_vars

\* The protocol layer over the storage: one caller, the search tool called with
\* dense and with keyed vectors, next to the storage's own search.
ToolSearchCall(raw, l) == [op |-> "tool_search", vector |-> raw, limit |-> l]
ToolStoreCalls ==
    {StoreCall(id, v, m, None) : id \in Ids, v \in {V0, V34}, m \in {"None", "m1"}}
ToolSearchCalls ==
    {ToolSearchCall(raw, l) : raw \in {DenseInput(<<0, 1>>), DenseInput(<<>>),
                                       MapInput("0" :> 4 @@ "1" :> 3)},
                              l \in 1..2}

NextTool ==
    \/ \E c \in ToolStoreCalls : Store("t1", c)
    \/ \E c \in DeleteCalls : Delete("t1", c)
    \/ StoreRewrite("t1")
    \/ StoreAppend("t1")
    \/ DeletePersist("t1")
    \/ \E c \in SeqSearchCalls : Search("t1", c)
    \/ \E c \in ToolSearchCalls : ToolSearch("t1", c)
    \/ Tick

SpecTool == Init /\ [][NextTool]_vars


\* The tools called with vectors of every kind: lists and maps, as values and as
\* JSON text, and the kinds that are neither.
GoodInputs == {DenseInput(<<0, 1>>), MapInput("0" :> 4 @@ "1" :> 3),
               TextInput(DenseInput(<<3, 4>>))}
BadInputs == {OtherInput(k) : k \in {"number", "boolean"}}
             \cup {TextInput(OtherInput(k)) : k \in {"number", "boolean", "null", "string", "broken"}}
MemorizeCall(id, text, raw, m) ==
    [op |-> "memorize", id |-> id, text |-> text, vector |-> raw, metadata |-> m]
GuardMemorizeCalls ==
    {MemorizeCall(id, text, raw, "None") : id \in Ids, text \in {None, Some("x")},
                                          raw \in GoodInputs \cup BadInputs}
GuardSearchCalls == {ToolSearchCall(raw, 2) : raw \in GoodInputs \cup BadInputs}

NextGuard ==
    \/ \E c \in GuardMemorizeCalls : ToolMemorize("t1", c)
    \/ \E c \in GuardMemorizeCalls \cup GuardSearchCalls : ToolRejects("t1", c)
    \/ \E c \in GuardSearchCalls : ToolSearch("t1", c)
    \/ StoreRewrite("t1")
    \/ StoreAppend("t1")

SpecGuard == Init /\ [][NextGuard]_vars


\* One caller at a time, and now and then a new storage object on the same file.
ReopenStoreCalls ==
    {StoreCall(id, V0, "None", Some(0)) : id \in Ids}
    \cup {StoreCall(id, V34, "m1", None) : id \in Ids}
    \cup {StoreCall(id, VEmpty, "m1", Some(1)) : id \in Ids}

NextReopen ==
    \/ \E c \in ReopenStoreCalls : Store("t1", c)
    \/ \E c \in SeqUpdateCalls : UpdateScore("t1", c)
    \/ \E c \in SeqDeleteCalls : Delete("t1", c)
    \/ StoreRewrite("t1")
    \/ StoreAppend("t1")
    \/ UpdatePersist("t1")
    \/ DeletePersist("t1")
    \/ \E c \in SeqSearchCalls : Search("t1", c)
    \/ Tick
    \/ Reopen

SpecReopen == Init /\ [][NextReopen]_vars

\* A storage object opened on a file that is already there, with records and
\* with lines that are none; one caller, search and ensure_file.
MaxLines == 3
RecordA == _entry_to_jsonl_line(
    [id |-> "a", metadata |-> "m1", vector |-> V34, score |-> Some(1), timestamp |-> 0])
RecordB == _entry_to_jsonl_line(
    [id |-> "b", metadata |-> "{}", vector |-> V0, score |-> None, timestamp |-> 1])
JunkKinds == {"blank", "spaces", "broken", "number", "null", "boolean", "string", "array"}
FileLines == {RecordA, RecordB} \cup {Junk(k) : k \in JunkKinds}
FilesOfLength(n) == [1..n -> FileLines]

InitLoad ==
    /\ file \in {None} \cup {Some(ls) : ls \in UNION {FilesOfLength(n) : n \in 0..MaxLines}}
    /\ initialized = FALSE
    /\ entries = None
    /\ locked = FALSE
    /\ waiters = <<>>
    /\ pc = [t \in Tasks |-> "idle"]
    /\ call = [t \in Tasks |-> NoCall]
    /\ full = [t \in Tasks |-> None]
    /\ ret = [t \in Tasks |-> NoRet]
    /\ now = 0

NextLoad ==
    \/ \E c \in SeqSearchCalls : Search("t1", c)
    \/ \E c \in SeqSearchCalls : SearchFails("t1", c)
    \/ EnsureFile("t1")

SpecLoad == InitLoad /\ [][NextLoad]_vars

\* Concurrent callers whose file writes may fail.
FailStoreCalls == {StoreCall("a", V0, "m1", Some(0)), StoreCall("b", V34, "m1", None)}
FailUpdateCalls == {UpdateCall("a", 1)}
FailDeleteCalls == {DeleteCall("a")}

NextFail ==
    \/ \E t \in Tasks : \E c \in FailStoreCalls : Store(t, c)
    \/ \E t \in Tasks : \E c \in FailUpdateCalls : UpdateScore(t, c)
    \/ \E t \in Tasks : \E c \in FailDeleteCalls : Delete(t, c)
    \/ \E t \in Tasks : \E c \in FailStoreCalls \cup FailUpdateCalls \cup FailDeleteCalls :
          Wait(t, c)
    \/ \E t \in Tasks : Resume(t)
    \/ \E t \in Tasks : StoreRewrite(t)
    \/ \E t \in Tasks : StoreAppend(t)
    \/ \E t \in Tasks : UpdatePersist(t)
    \/ \E t \in Tasks : DeletePersist(t)
    \/ \E t \in Tasks : PersistFails(t)

SpecFail == Init /\ [][NextFail]_vars

\* One caller, entries whose similarities to the query are near each other and
\* far from each other, scores of both signs.
CloseStoreCalls ==
    {StoreCall(id, v, "m1", sc) : id \in Ids, v \in {V34, V43, VEmpty},
                                  sc \in {Some(-1), Some(0), Some(1)}}
CloseSearchCalls == {SearchCall(V43, l) : l \in 1..2}

NextClose ==
    \/ \E c \in CloseStoreCalls : Store("t1", c)
    \/ StoreRewrite("t1")
    \/ StoreAppend("t1")
    \/ \E c \in CloseSearchCalls : Search("t1", c)

SpecClose == Init /\ [][NextClose]_vars

\* The functions on numbers, each applied to inputs that the initial state draws.
\* The scores: every float up to 2^(MantissaBits + MaxShift - 1) in magnitude.
MaxFloat == 2^(MantissaBits + MaxShift - 1)
FloatScores == {x \in (-MaxFloat)..MaxFloat : FloatRound(Abs(x)) = Abs(x)}

InitBoost ==
    /\ file = None
    /\ initialized = FALSE
    /\ entries = None
    /\ locked = FALSE
    /\ waiters = <<>>
    /\ pc = [t \in Tasks |-> "idle"]
    /\ call \in {[t \in Tasks |-> IF t = "t1" THEN [op |-> "_feedback_boost", score |-> x]
                                    ELSE NoCall] : x \in FloatScores}
    /\ full = [t \in Tasks |-> None]
    /\ ret = [t \in Tasks |-> NoRet]
    /\ now = 0

NextBoost == FeedbackBoost("t1")

SpecBoost == InitBoost /\ [][NextBoost]_vars

\* The vectors for cosine_similarity: empty, all weights 0, and of norm 1 and 5.
VZero == (0 :> 0)
VZeros == (0 :> 0 @@ 1 :> 0)
CosineVectors == {VEmpty, VZero, VZeros, V0, V34, V43}
CosineNorms == {None, Some(0), Some(1), Some(MaxNorm)}

InitCosine ==
    /\ file = None
    /\ initialized = FALSE
    /\ entries = None
    /\ locked = FALSE
    /\ waiters = <<>>
    /\ pc = [t \in Tasks |-> "idle"]
    /\ call \in {[t \in Tasks |-> IF t = "t1"
                                    THEN [op |-> "cosine_similarity", v1 |-> a, v2 |-> b,
                                          v1_norm |-> n]
                                    ELSE NoCall] :
                    a \in CosineVectors, b \in CosineVectors, n \in CosineNorms}
    /\ full = [t \in Tasks |-> None]
    /\ ret = [t \in Tasks |-> NoRet]
    /\ now = 0

NextCosine == CosineSimilarity("t1")

SpecCosine == InitCosine /\ [][NextCosine]_vars

\* The dense vectors for to_sparse_threshold: up to as many dimensions as there
\* are key names, values of both signs; normalised only when the norm is an
\* integer.  The thresholds: below 0, 0, values that occur, and above all.
DenseValues == {-4, -3, 0, 1, 3, 4}
DenseVectors == UNION {[1..n -> DenseValues] : n \in 0..Len(KeyNames)}
Thresholds == {<<-1, 1>>, <<0, 1>>, <<3, 5>>, <<4, 5>>, <<1, 1>>, <<3, 1>>, <<4, 1>>}

InitSparsify ==
    /\ file = None
    /\ initialized = FALSE
    /\ entries = None
    /\ locked = FALSE
    /\ waiters = <<>>
    /\ pc = [t \in Tasks |-> "idle"]
    /\ call \in {[t \in Tasks |-> IF t = "t1"
                                    THEN [op |-> "to_sparse_threshold", dense |-> d,
                                          threshold |-> th, normalise |-> n]
                                    ELSE NoCall] :
                    d \in DenseVectors, th \in Thresholds, n \in BOOLEAN}
    /\ call["t1"].normalise => HasIntegerNorm(call["t1"].dense)
    /\ full = [t \in Tasks |-> None]
    /\ ret = [t \in Tasks |-> NoRet]
    /\ now = 0

NextSparsify == ToSparseThreshold("t1")

SpecSparsify == InitSparsify /\ [][NextSparsify]_vars

\* to_sparse_topk on the same dense vectors, with every k from 0 to MaxK.
MaxK == 4

InitTopk ==
    /\ file = None
    /\ initialized = FALSE
    /\ entries = None
    /\ locked = FALSE
    /\ waiters = <<>>
    /\ pc = [t \in Tasks |-> "idle"]
    /\ call \in {[t \in Tasks |-> IF t = "t1"
                                    THEN [op |-> "to_sparse_topk", dense |-> d,
                                          k |-> k, normalise |-> n]
                                    ELSE NoCall] :
                    d \in DenseVectors, k \in 0..MaxK, n \in BOOLEAN}
    /\ call["t1"].normalise => HasIntegerNorm(call["t1"].dense)
    /\ full = [t \in Tasks |-> None]
    /\ ret = [t \in Tasks |-> NoRet]
    /\ now = 0

NextTopk == ToSparseTopk("t1")

SpecTopk == InitTopk /\ [][NextTopk]_vars

\* Batches for the calibration functions: up to MaxBatch vectors of up to MaxDim
\* dimensions, of integer norm (every vector is normalised).
MaxBatch == 2
MaxDim == 3
StatValues == {-4, 0, 3}
StatVectors == {d \in UNION {[1..n -> StatValues] : n \in 0..MaxDim} : HasIntegerNorm(d)}
Batches == UNION {[1..n -> StatVectors] : n \in 0..MaxBatch}

InitStats ==
    /\ file = None
    /\ initialized = FALSE
    /\ entries = None
    /\ locked = FALSE
    /\ waiters = <<>>
    /\ pc = [t \in Tasks |-> "idle"]
    /\ call \in {[t \in Tasks |-> IF t = "t1"
                                    THEN [op |-> "magnitude_stats", vectors |-> b]
                                    ELSE NoCall] : b \in Batches}
    /\ full = [t \in Tasks |-> None]
    /\ ret = [t \in Tasks |-> NoRet]
    /\ now = 0

NextStats == MagnitudeStats("t1")

SpecStats == InitStats /\ [][NextStats]_vars

\* Batches and threshold lists for sparsity_at_thresholds: vectors without
\* components, of zeros, and with magnitudes 3/5, 4/5 and 1 after normalising.
SparsityVectors == {<<>>, <<0, 0>>, <<3, -4>>, <<3, 0, -4>>, <<0, -4, 0>>, <<1>>}
SparsityBatches == UNION {[1..n -> SparsityVectors] : n \in 0..MaxBatch}
ThresholdLists == UNION {[1..n -> Thresholds] : n \in 0..2}

InitSparsity ==
    /\ file = None
    /\ initialized = FALSE
    /\ entries = None
    /\ locked = FALSE
    /\ waiters = <<>>
    /\ pc = [t \in Tasks |-> "idle"]
    /\ call \in {[t \in Tasks |-> IF t = "t1"
                                    THEN [op |-> "sparsity_at_thresholds", vectors |-> b, thresholds |-> ts]
                                    ELSE NoCall] : b \in SparsityBatches, ts \in ThresholdLists}
    /\ full = [t \in Tasks |-> None]
    /\ ret = [t \in Tasks |-> NoRet]
    /\ now = 0

NextSparsity == SparsityAtThresholds("t1")

SpecSparsity == InitSparsity /\ [][NextSparsity]_vars

\* Config files and environments: every setting absent, given well, or given
\* as something of another kind; every variable unset, empty, a good value, or
\* (the numeric ones) a text that is no number.
ConfigFiles ==
    [file : {Absent, StrVal("from-yaml.jsonl"), IntVal(7)},
     port : {Absent, IntVal(4000), StrVal("4000"), StrVal("abc")},
     model : {Absent, StrVal("custom-model")},
     dims : {Absent, IntVal(128), StrVal("128"), StrVal("abc")},
     threshold : {Absent, FloatVal(<<1, 50>>), StrVal("0.05")}]
Environments ==
    [VECFS_FILE : {None, Some(""), Some("env.jsonl")},
     PORT : {None, Some("8080"), Some("abc")},
     VECFS_EMBED_MODEL : {None, Some("env-model")},
     VECFS_EMBED_DIMS : {None, Some(""), Some("256"), Some("abc")},
     VECFS_EMBED_THRESHOLD : {None, Some("0.25"), Some("abc")}]

InitConfig ==
    /\ file = None
    /\ initialized = FALSE
    /\ entries = None
    /\ locked = FALSE
    /\ waiters = <<>>
    /\ pc = [t \in Tasks |-> "idle"]
    /\ call \in {[t \in Tasks |-> IF t = "t1"
                                    THEN [op |-> "load_config", cfg |-> c, env |-> e]
                                    ELSE NoCall] : c \in ConfigFiles, e \in Environments}
    /\ full = [t \in Tasks |-> None]
    /\ ret = [t \in Tasks |-> NoRet]
    /\ now = 0

NextConfig == LoadConfig("t1")

SpecConfig == InitConfig /\ [][NextConfig]_vars

\* A storage object opened on a file that is already there, with records and
\* with lines the load skips; one caller, every operation.
SkippedKinds == {"blank", "broken"}
ExistingLines == {RecordA, RecordB} \cup {Junk(k) : k \in SkippedKinds}
ExistingStoreCalls == {StoreCall(id, V0, "m1", Some(0)) : id \in {"a", "c"}}
ExistingUpdateCalls == {UpdateCall(id, 1) : id \in {"a", "b"}}
ExistingDeleteCalls == {DeleteCall("a")}

InitExisting ==
    /\ file \in {None} \cup {Some(ls) : ls \in UNION {[1..n -> ExistingLines] : n \in 0..MaxLines}}
    /\ initialized = FALSE
    /\ entries = None
    /\ locked = FALSE
    /\ waiters = <<>>
    /\ pc = [t \in Tasks |-> "idle"]
    /\ call = [t \in Tasks |-> NoCall]
    /\ full = [t \in Tasks |-> None]
    /\ ret = [t \in Tasks |-> NoRet]
    /\ now = 0

NextExisting ==
    \/ \E c \in ExistingStoreCalls : Store("t1", c)
    \/ \E c \in ExistingUpdateCalls : UpdateScore("t1", c)
    \/ \E c \in ExistingDeleteCalls : Delete("t1", c)
    \/ StoreRewrite("t1")
    \/ StoreAppend("t1")
    \/ UpdatePersist("t1")
    \/ DeletePersist("t1")
    \/ \E c \in SeqSearchCalls : Search("t1", c)

SpecExisting == InitExisting /\ [][NextExisting]_vars

\* Three callers, so that two can wait for the lock at once.
Callers == Tasks \cup {"t3"}
QueueCalls == {StoreCall("a", V0, "m1", Some(0)), UpdateCall("a", 1), DeleteCall("a")}

InitQueue ==
    /\ file \in {None, Some(<<>>)}
    /\ initialized = FALSE
    /\ entries = None
    /\ locked = FALSE
    /\ waiters = <<>>
    /\ pc = [t \in Callers |-> "idle"]
    /\ call = [t \in Callers |-> NoCall]
    /\ full = [t \in Callers |-> None]
    /\ ret = [t \in Callers |-> NoRet]
    /\ now = 0

NextQueue ==
    \/ \E t \in Callers : Store(t, StoreCall("a", V0, "m1", Some(0)))
    \/ \E t \in Callers : UpdateScore(t, UpdateCall("a", 1))
    \/ \E t \in Callers : Delete(t, DeleteCall("a"))
    \/ \E t \in Callers : \E c \in QueueCalls : Wait(t, c)
    \/ \E t \in Callers : Resume(t)
    \/ \E t \in Callers : StoreRewrite(t)
    \/ \E t \in Callers : StoreAppend(t)
    \/ \E t \in Callers : UpdatePersist(t)
    \/ \E t \in Callers : DeletePersist(t)

SpecQueue == InitQueue /\ [][NextQueue]_vars

\* Two callers whose writes may fail, under a fair scheduler: a write that was
\* begun ends (it completes or it raises), and a waiter that Lock.release woke
\* is run.
LiveCalls == {StoreCall("a", V0, "m1", Some(0)), UpdateCall("a", 1), DeleteCall("a")}

NextLive ==
    \/ \E t \in Tasks : Store(t, StoreCall("a", V0, "m1", Some(0)))
    \/ \E t \in Tasks : UpdateScore(t, UpdateCall("a", 1))
    \/ \E t \in Tasks : Delete(t, DeleteCall("a"))
    \/ \E t \in Tasks : \E c \in LiveCalls : Wait(t, c)
    \/ \E t \in Tasks : Resume(t)
    \/ \E t \in Tasks : StoreRewrite(t)
    \/ \E t \in Tasks : StoreAppend(t)
    \/ \E t \in Tasks : UpdatePersist(t)
    \/ \E t \in Tasks : DeletePersist(t)
    \/ \E t \in Tasks : PersistFails(t)
    \/ \E t \in Tasks : \E c \in SearchCalls : Search(t, c)

WriteEnds(t) ==
    StoreRewrite(t) \/ StoreAppend(t) \/ UpdatePersist(t) \/ DeletePersist(t) \/ PersistFails(t)

SpecLive ==
    /\ Init
    /\ [][NextLive]_vars
    /\ \A t \in Tasks : WF_vars(WriteEnds(t)) /\ WF_vars(Resume(t))

\* Another program changes the backing file while no write of the storage is
\* under way: it adds a record, or empties the file.
Outside ==
    /\ \A t \in Tasks : pc[t] \notin Suspended
    /\ file # None /\ Len(file[1]) <= MaxFileLen
    /\ file' \in {Some(Append(file[1], RecordB)), Some(<<>>)} \ {file}
    /\ UNCHANGED <<initialized, entries, locked, waiters, pc, call, full, ret, now>>

OutsideStoreCalls == {StoreCall(id, V34, "m1", Some(0)) : id \in {"a", "c"}}
OutsideUpdateCalls == {UpdateCall("a", 1)}
OutsideDeleteCalls == {DeleteCall("c")}

NextOutside ==
    \/ \E c \in OutsideStoreCalls : Store("t1", c)
    \/ \E c \in OutsideUpdateCalls : UpdateScore("t1", c)
    \/ \E c \in OutsideDeleteCalls : Delete("t1", c)
    \/ StoreRewrite("t1")
    \/ StoreAppend("t1")
    \/ UpdatePersist("t1")
    \/ DeletePersist("t1")
    \/ \E c \in SeqSearchCalls : Search("t1", c)
    \/ Outside

SpecOutside == Init /\ [][NextOutside]_vars

\* Two callers on a file that is already there: searches and stores that meet
\* at the first load.
FirstStoreCalls == {StoreCall(id, V0, "m1", Some(0)) : id \in {"a", "c"}}

NextFirst ==
    \/ \E t \in Tasks : \E c \in FirstStoreCalls : Store(t, c)
    \/ \E t \in Tasks : \E c \in FirstStoreCalls : Wait(t, c)
    \/ \E t \in Tasks : Resume(t)
    \/ \E t \in Tasks : StoreRewrite(t)
    \/ \E t \in Tasks : StoreAppend(t)
    \/ \E t \in Tasks : \E c \in SeqSearchCalls : Search(t, c)

SpecFirst == InitExisting /\ [][NextFirst]_vars

\* Vectors for normalize_vector_input: lists with and without zeros, and maps of
\* up to MaxItems items with string and integer keys, zero values, and keys that
\* denote the same integer.
MaxItems == 2
InputValues == {0, 3, -4}
InputKeys == {StrKey("0"), StrKey("1"), StrKey("01"), IntKey(1), IntKey(2)}
InputLists == UNION {[1..n -> InputValues] : n \in 0..Len(KeyNames)}
InputItems ==
    {items \in UNION {[1..n -> InputKeys \X InputValues] : n \in 0..MaxItems} :
        \A i, j \in 1..Len(items) : items[i][1] = items[j][1] => i = j}

InitNormalize ==
    /\ file = None
    /\ initialized = FALSE
    /\ entries = None
    /\ locked = FALSE
    /\ waiters = <<>>
    /\ pc = [t \in Tasks |-> "idle"]
    /\ call \in {[t \in Tasks |-> IF t = "t1"
                                    THEN [op |-> "normalize_vector_input", raw |-> r]
                                    ELSE NoCall] :
                    r \in {DenseInput(l) : l \in InputLists}
                          \cup {ItemsInput(items) : items \in InputItems}}
    /\ full = [t \in Tasks |-> None]
    /\ ret = [t \in Tasks |-> NoRet]
    /\ now = 0

NextNormalize == NormalizeVectorInput("t1")

SpecNormalize == InitNormalize /\ [][NextNormalize]_vars

\* Two clients of the server, one tool call at a time: memorize and feedback.
FeedbackCall(id, d) == [op |-> "feedback", id |-> id, scoreAdjustment |-> d]
FeedbackCalls == {FeedbackCall(id, d) : id \in Ids, d \in {1, 2}}
FeedbackMemorizeCalls ==
    {MemorizeCall(id, text, raw, "None") : id \in Ids, text \in {None, Some("x")},
                                          raw \in {DenseInput(<<0, 1>>)}}

NextFeedback ==
    \/ \E t \in Tasks : \E c \in FeedbackMemorizeCalls : ToolMemorize(t, c)
    \/ \E t \in Tasks : \E c \in FeedbackCalls : ToolFeedback(t, c)
    \/ \E t \in Tasks : StoreRewrite(t)
    \/ \E t \in Tasks : StoreAppend(t)
    \/ \E t \in Tasks : UpdatePersist(t)

SpecFeedback == Init /\ [][NextFeedback]_vars

\* ----------------------------------------------------------------- claims

\* What the claims read of the store.
CacheList == IF entries = None THEN <<>> ELSE entries[1]
CachedIds == {CacheList[i].id : i \in 1..Len(CacheList)}
FileContent == IF file = None THEN <<>> ELSE file[1]
InFlight == {t \in Tasks : pc[t] \in Suspended}
Returned(t, op) == pc[t] = "done" /\ call[t].op = op

\* C1: from an empty or absent backing file, under every interleaving of store,
\* update_score, delete and search, no two entries of the cache have the same id.
C1_UniqueIds ==
    \A i, j \in 1..Len(CacheList) : CacheList[i].id = CacheList[j].id => i = j

\* C1 witness: a store on an id that was already cached has returned False while
\* the cache holds two entries.
C1_Witness ==
    /\ Len(CacheList) = 2
    /\ \E t \in Tasks : Returned(t, "store") /\ ret[t] = BoolRet(FALSE)

\* C2: whenever no mutating operation is between its cache change and the end of
\* its file write, the records of the backing file are the cached entries, in the
\* same order and with the same fields.
C2_FileEqualsCache ==
    (entries # None /\ InFlight = {}) =>
        (file # None /\ ParseAll(file[1]) = entries[1])

\* C2 witness: an update_score has rewritten a file of two records and nothing is
\* in flight.
C2_Witness ==
    /\ InFlight = {}
    /\ Len(CacheList) = 2 /\ Len(FileContent) = 2
    /\ \E t \in Tasks : Returned(t, "update_score") /\ ret[t] = BoolRet(TRUE)

\* C3: at most one mutating operation is between taking the lock and finishing
\* its file write, and that one holds the lock.
C3_OneInCriticalSection ==
    /\ Cardinality(InFlight) <= 1
    /\ InFlight # {} => locked

\* C3 witness: one task is inside its critical section while the other waits
\* for the lock.
C3_Witness ==
    \E t, u \in Tasks : pc[t] \in Suspended /\ pc[u] = "waiting"


\* A step in which task t's call of `op` takes effect: the call itself when the
\* lock is free (or the call takes none), the wake-up when the task had to wait.
Begins(t, op) ==
    /\ pc[t] \in {"idle", "done", "waiting"}
    /\ pc'[t] # "waiting"
    /\ <<pc[t], call[t], ret[t]>> # <<pc'[t], call'[t], ret'[t]>>
    /\ call'[t].op = op

\* A step in which task t's suspended operation finishes its write and returns.
Returns(t) == pc[t] \in Suspended /\ pc'[t] = "done"

\* The position of the one cached entry with this id.
PosOf(id) == CHOOSE i \in 1..Len(CacheList) : CacheList[i].id = id

\* C4: store returns True exactly when no cached entry had the id when the call
\* took effect, and False exactly when one had.
C4_StoreReturnsIsNew ==
    [][\A t \in Tasks :
        /\ Begins(t, "store") =>
              /\ pc'[t] \in {"store_persist_append", "store_persist_all"}
              /\ pc'[t] = "store_persist_append" <=> call'[t].id \notin CachedIds
        /\ (Returns(t) /\ call[t].op = "store") =>
              ret'[t] = BoolRet(pc[t] = "store_persist_append")
      ]_vars

\* C4 witness: a store on a cached id has returned False.
C4_Witness ==
    \E t \in Tasks :
        /\ Returned(t, "store") /\ ret[t] = BoolRet(FALSE)
        /\ call[t].id \in CachedIds

\* C5: a store on a cached id leaves exactly one entry for the id, at the old
\* position, carrying the call's vector, metadata (the empty map when none is
\* given), score and the time of the call; its file write changes no entry; and
\* a search returns at most one result per id, with the cached vector.
C5_ReplaceWholesale ==
    [][\A t \in Tasks :
        /\ (Begins(t, "store") /\ call'[t].id \in CachedIds) =>
              LET c == call'[t]
                  es == entries'[1]
              IN  /\ Len(es) = Len(CacheList)
                  /\ \A i \in 1..Len(es) :
                        IF i = PosOf(c.id)
                        THEN es[i] = [id |-> c.id, vector |-> c.vector,
                                      metadata |-> IF c.metadata = "None" THEN "{}"
                                                   ELSE c.metadata,
                                      score |-> c.score, timestamp |-> now]
                        ELSE es[i] = CacheList[i] /\ es[i].id # c.id
        /\ Returns(t) => entries' = entries
        /\ Begins(t, "search") =>
              LET rs == ret'[t].val
              IN  /\ \A i, j \in 1..Len(rs) : rs[i].id = rs[j].id => i = j
                  /\ \A i \in 1..Len(rs) : \E k \in 1..Len(entries'[1]) :
                        /\ entries'[1][k].id = rs[i].id
                        /\ entries'[1][k].vector = rs[i].vector
      ]_vars

\* C5 witness: a store has replaced a record that held another vector, metadata
\* and an accumulated score, at a later time, and returned False.
C5_Witness ==
    \E t \in Tasks :
        /\ Returned(t, "store") /\ ret[t] = BoolRet(FALSE)
        /\ call[t].vector = V34 /\ call[t].score = None
        /\ now = MaxTime
        /\ CacheList[PosOf(call[t].id)] =
              [id |-> call[t].id, vector |-> V34, metadata |-> "m1", score |-> None,
               timestamp |-> MaxTime]
        /\ Len(CacheList) = 2

\* C6: update_score on a cached id raises the entry's score by the adjustment,
\* a null score counting as 0, returns True, and the file it has written holds
\* the new score.
C6_ScoreAccumulates ==
    [][\A t \in Tasks :
        /\ (Begins(t, "update_score") /\ call'[t].id \in CachedIds) =>
              LET c == call'[t]
                  old == CacheList[PosOf(c.id)].score
                  base == IF old = None THEN 0 ELSE old[1]
              IN  /\ entries'[1][PosOf(c.id)].score = Some(base + c.score_adjustment)
                  /\ pc'[t] = "update_persist_all"
        /\ (Returns(t) /\ call[t].op = "update_score") =>
              /\ ret'[t] = BoolRet(TRUE)
              /\ Len(file'[1]) = Len(entries'[1])
              /\ \A i \in 1..Len(file'[1]) :
                    /\ file'[1][i].id = entries'[1][i].id
                    /\ file'[1][i].score = entries'[1][i].score
      ]_vars

\* C6 witness: two adjustments of +1 have taken a null score to 2, in the cache
\* and in the file.
C6_Witness ==
    \E t \in Tasks :
        /\ Returned(t, "update_score") /\ ret[t] = BoolRet(TRUE)
        /\ \E i \in 1..Len(CacheList) :
              /\ CacheList[i].id = call[t].id
              /\ CacheList[i].vector = V34
              /\ CacheList[i].score = Some(2)
              /\ FileContent[i].score = Some(2)

\* C7: update_score and delete on an id that is not cached return False at once
\* and change neither the cached entries, their order, nor the file's content.
C7_MissingIdNoEffect ==
    [][\A t \in Tasks :
        ((Begins(t, "update_score") \/ Begins(t, "delete"))
            /\ call'[t].id \notin CachedIds) =>
              /\ pc'[t] = "done"
              /\ ret'[t] = BoolRet(FALSE)
              /\ CacheList' = CacheList
              /\ FileContent' = FileContent
      ]_vars

\* C7 witness: a delete of an id that is not cached has returned False while
\* another entry is cached and on file.
C7_Witness ==
    \E t \in Tasks :
        /\ Returned(t, "delete") /\ ret[t] = BoolRet(FALSE)
        /\ call[t].id \notin CachedIds
        /\ Len(CacheList) = 1 /\ Len(FileContent) = 1


\* C8: delete on a cached id removes that entry and no other, keeps the others
\* in their order, returns True, and leaves the file with the records of the
\* cache and none for the id; a delete of an id that is not cached (a second
\* delete) returns False.
C8_DeleteRemovesOne ==
    [][\A t \in Tasks :
        /\ (Begins(t, "delete") /\ call'[t].id \in CachedIds) =>
              /\ entries'[1] = SelectSeq(CacheList, LAMBDA e : e.id # call'[t].id)
              /\ Len(entries'[1]) = Len(CacheList) - 1
              /\ pc'[t] = "delete_persist_all"
        /\ (Returns(t) /\ call[t].op = "delete") =>
              /\ ret'[t] = BoolRet(TRUE)
              /\ entries' = entries
              /\ ParseAll(file'[1]) = entries'[1]
              /\ \A i \in 1..Len(file'[1]) : file'[1][i].id # call[t].id
        /\ (Begins(t, "delete") /\ call'[t].id \notin CachedIds) =>
              pc'[t] = "done" /\ ret'[t] = BoolRet(FALSE)
      ]_vars

\* C8 witness: a delete has returned True and left two other entries, in the
\* cache and in the file.
C8_Witness ==
    \E t \in Tasks :
        /\ Returned(t, "delete") /\ ret[t] = BoolRet(TRUE)
        /\ call[t].id \notin CachedIds
        /\ Len(CacheList) = 2 /\ Len(FileContent) = 2

\* The results of task t's search, when that is its last call.
ResultsOf(t) == ret[t].val

\* C9: the results of a search are in non-increasing order of combined rank, and
\* results of equal combined rank are in the order of their entries in the cache.
C9_RankedStable ==
    \A t \in Tasks : Returned(t, "search") =>
        \A i, j \in 1..Len(ResultsOf(t)) : i < j =>
            LET ri == ResultsOf(t)[i]
                rj == ResultsOf(t)[j]
            IN  /\ RatLeq(RankOf(rj), RankOf(ri))
                /\ RatEq(RankOf(ri), RankOf(rj)) => PosOf(ri.id) < PosOf(rj.id)

\* C9 witness: a search has returned three results, two of them of equal rank
\* and two of them in another order than in the cache.
C9_Witness ==
    \E t \in Tasks :
        /\ Returned(t, "search") /\ Len(ResultsOf(t)) = 3
        /\ \E i, j \in 1..3 : i < j /\ RatEq(RankOf(ResultsOf(t)[i]), RankOf(ResultsOf(t)[j]))
        /\ \E i, j \in 1..3 : i < j /\ PosOf(ResultsOf(t)[i].id) > PosOf(ResultsOf(t)[j].id)

\* The rank search gives a cached entry for a query.
EntryRank(e, q) == RankOf(ResultOf(e, q, norm(q)))

\* C10: a search with limit >= 0 on n cached entries returns min(limit, n)
\* results; each is a cached entry with its similarity, no entry twice; no entry
\* left out ranks before a result; with limit >= n every entry is returned.
C10_TopLimit ==
    \A t \in Tasks : (Returned(t, "search") /\ call[t].limit >= 0) =>
        LET rs == ResultsOf(t)
            q == call[t].query_vector
            n == Len(CacheList)
            l == call[t].limit
            got == {rs[i].id : i \in 1..Len(rs)}
        IN  /\ Len(rs) = IF l < n THEN l ELSE n
            /\ \A i, j \in 1..Len(rs) : rs[i].id = rs[j].id => i = j
            /\ \A i \in 1..Len(rs) :
                  /\ rs[i].id \in CachedIds
                  /\ rs[i] = ResultOf(CacheList[PosOf(rs[i].id)], q, norm(q))
            /\ \A k \in 1..n : CacheList[k].id \notin got =>
                  \A i \in 1..Len(rs) :
                      \/ RatLess(EntryRank(CacheList[k], q), RankOf(rs[i]))
                      \/ /\ RatEq(EntryRank(CacheList[k], q), RankOf(rs[i]))
                         /\ PosOf(rs[i].id) < k
            /\ l >= n => got = CachedIds

\* C10 witness: a search with limit 2 on three cached entries has returned two.
C10_Witness ==
    \E t \in Tasks :
        /\ Returned(t, "search") /\ call[t].limit = 2
        /\ Len(CacheList) = 3 /\ Len(ResultsOf(t)) = 2

\* The fields of a search result without the vector.
ResultFields == {"id", "metadata", "score", "timestamp", "similarity"}

\* C11 as stated: no result that the storage's search returns to the protocol
\* layer has a vector field.
C11_StorageResultsHaveNoVector ==
    \A t \in Tasks : Returned(t, "search") =>
        \A i \in 1..Len(ResultsOf(t)) : "vector" \notin DOMAIN ResultsOf(t)[i]

\* C11, amended: every result in the answer of the protocol layer's search tool
\* has exactly the fields id, metadata, score, timestamp and similarity, with the
\* values of the cached entry of that id, and no vector; the results that the
\* storage's search hands to the protocol layer do carry the stored vector.
C11_ToolResultsHaveNoVector ==
    /\ \A t \in Tasks : Returned(t, "tool_search") =>
          \A i \in 1..Len(ResultsOf(t)) :
              LET r == ResultsOf(t)[i]
                  e == CacheList[PosOf(r.id)]
              IN  /\ DOMAIN r = ResultFields
                  /\ r.id \in CachedIds
                  /\ <<r.metadata, r.score, r.timestamp>> = <<e.metadata, e.score, e.timestamp>>
                  /\ r.similarity = ResultOf(e, normalize_vector_input(call[t].vector),
                                             norm(normalize_vector_input(call[t].vector))).similarity
    /\ \A t \in Tasks : Returned(t, "search") =>
          \A i \in 1..Len(ResultsOf(t)) :
              /\ DOMAIN ResultsOf(t)[i] = ResultFields \cup {"vector"}
              /\ ResultsOf(t)[i].vector = CacheList[PosOf(ResultsOf(t)[i].id)].vector

\* C11 witness: the search tool has answered with two results for entries that
\* hold non-empty vectors.
C11_Witness ==
    \E t \in Tasks :
        /\ Returned(t, "tool_search") /\ Len(ResultsOf(t)) = 2
        /\ \A k \in 1..Len(CacheList) : DOMAIN CacheList[k].vector # {}

\* C12: when a new storage object is opened on the file after any sequence of
\* store, update_score and delete calls, what it loads is the cache of the object
\* before it: the same entries in the same order, each with the same id,
\* metadata, score, timestamp and vector (integer keys, same weights); and the
\* first search of the new object leaves exactly these entries in its cache.
C12_RoundTrip ==
    [][/\ (entries # None /\ entries' = None) =>
             /\ Loaded' = entries[1]
             /\ \A i \in 1..Len(entries[1]) :
                   LET e == entries[1][i]
                       l == file'[1][i]
                   IN  /\ <<l.id, l.metadata, l.score, l.timestamp>> =
                             <<e.id, e.metadata, e.score, e.timestamp>>
                       /\ DOMAIN l.vector = {KeyStr(k) : k \in DOMAIN e.vector}
                       /\ \A k \in DOMAIN e.vector : l.vector[KeyStr(k)] = e.vector[k]
       /\ (entries = None /\ file # None /\ \E t \in Tasks : Begins(t, "search")) =>
             /\ Len(entries'[1]) = Len(file[1])
             /\ \A i \in 1..Len(file[1]) :
                   LET e == entries'[1][i]
                       l == file[1][i]
                   IN  /\ <<e.id, e.metadata, e.score, e.timestamp>> =
                             <<l.id, l.metadata, l.score, l.timestamp>>
                       /\ DOMAIN e.vector = {KeyInt(k) : k \in DOMAIN l.vector}
                       /\ \A k \in DOMAIN e.vector : e.vector[k] = l.vector[KeyStr(k)]
      ]_vars

\* C12 witness: a new storage object has been opened, and has not loaded yet, on
\* a file of two records, one with a two-key vector and a null score, one with
\* an accumulated score.
C12_Witness ==
    /\ entries = None /\ ~initialized
    /\ Len(FileContent) = 2
    /\ \E i, j \in 1..2 :
          /\ DOMAIN FileContent[i].vector = {"0", "1"} /\ FileContent[i].score = None
          /\ FileContent[j].score = Some(2)

\* The lines of the file that hold a record, in file order.
RecordLines == SelectSeq(FileContent, IsEntry)
LineKinds == {FileContent[i].junk : i \in {j \in 1..Len(FileContent) : ~IsEntry(FileContent[j])}}

\* The step in which the storage object loads the file for a search.
LoadsBySearch(t) == entries = None /\ Begins(t, "search")

\* C13: a load of a file whose other lines are blank, white space, or text that
\* is not JSON does not fail: the search that loads returns its results, the
\* cache holds the records of the file, all of them, in file order, and the file
\* is as it was.
C13_MalformedLinesSkipped ==
    [][\A t \in Tasks :
        (LoadsBySearch(t) /\ LineKinds \subseteq {"blank", "spaces", "broken"}) =>
            /\ ret'[t].kind = "list"
            /\ entries' = Some(ParseAll(RecordLines))
            /\ FileContent' = FileContent
      ]_vars

\* C13 witness: a search has loaded two records from a file of three lines whose
\* middle line is not JSON, and returned both.
C13_Witness ==
    \E t \in Tasks :
        /\ Returned(t, "search") /\ ret[t].kind = "list" /\ Len(ret[t].val) = 2
        /\ Len(FileContent) = 3 /\ FileContent[2] = Junk("broken")
        /\ Len(CacheList) = 2

\* C14 as stated: a load of a file with lines that are JSON but no object does
\* not fail, and the cache holds the records of the file and nothing else.
C14_NonObjectLinesSkipped ==
    [][\A t \in Tasks :
        (LoadsBySearch(t) /\ LineKinds # {}
            /\ LineKinds \subseteq {"number", "null", "boolean", "string", "array"}) =>
            /\ ret'[t].kind = "list"
            /\ entries' = Some(ParseAll(RecordLines))
      ]_vars

\* C15: the initialized flag, once set, stays set; a call of ensure_file sets it;
\* the call creates an empty file when there is none and leaves an existing file
\* as it is; a call on an initialized store changes neither the flag, the cache
\* nor the file; and no call of ensure_file touches the cache.
C15_EnsureFileOnce ==
    [][/\ initialized => initialized'
       /\ \A t \in Tasks : Begins(t, "ensure_file") =>
             /\ initialized'
             /\ entries' = entries
             /\ file' = IF file = None THEN Some(<<>>) ELSE file
             /\ initialized => file' = file
      ]_vars

\* C15 witness: ensure_file has returned on a store whose file was there before,
\* with three lines, and nothing is loaded.
C15_Witness ==
    \E t \in Tasks :
        /\ Returned(t, "ensure_file") /\ ret[t] = NoneRet
        /\ initialized /\ entries = None
        /\ Len(FileContent) = 3

\* A step in which the file write of task t's operation fails.
WriteFailsIn(t) == pc[t] \in Suspended /\ pc'[t] = "done" /\ ret'[t].kind = "error"

\* C16: when the file write of a store, update_score or delete fails, the
\* operation ends in that step with the OSError as its outcome and writes
\* nothing again; the lock is free afterwards, a task that waited for it is
\* still queued and is the next to get it; and at all times the lock is taken
\* only while some operation is inside its critical section.
C16_FailureReleasesLock ==
    [][/\ \A t \in Tasks : WriteFailsIn(t) =>
             /\ ret'[t] = ErrRet("OSError")
             /\ call'[t] = call[t]
             /\ ~locked'
             /\ waiters' = waiters
             /\ \A u \in Tasks : pc'[u] \notin Suspended
       /\ locked' => \E u \in Tasks : pc'[u] \in Suspended
       /\ \A u \in Tasks : pc[u] = "waiting" =>
             \/ pc'[u] = "waiting"
             \/ ~locked /\ Head(waiters) = u /\ pc'[u] \in Suspended \cup {"done"}
      ]_vars

\* C16 witness: the write of one task's operation has failed, and the other
\* task, whose store found the lock taken, has since got the lock and is inside
\* its critical section.
C16_Witness ==
    \E t, u \in Tasks :
        /\ pc[t] = "done" /\ ret[t] = ErrRet("OSError")
        /\ pc[u] \in Suspended /\ locked

\* -W as a rational.
MinusW == <<-FEEDBACK_RANK_WEIGHT[1], FEEDBACK_RANK_WEIGHT[2]>>

EntrySim(e, q) == ResultOf(e, q, norm(q)).similarity

\* Entry x comes after entry y in the results of task t's search: y is a
\* result, and x is a later result or is cut off.
PlacedAfter(t, x, y) ==
    LET rs == ResultsOf(t)
    IN  \E j \in 1..Len(rs) :
            /\ rs[j].id = y.id
            /\ \A i \in 1..j : rs[i].id # x.id

\* C18 as stated: of two cached entries, the one with the strictly higher
\* similarity to the query never comes after the other in the results.
C18_SimilarityDominates ==
    \A t \in Tasks : Returned(t, "search") =>
        \A k, m \in 1..Len(CacheList) :
            LET x == CacheList[k]
                y == CacheList[m]
                q == call[t].query_vector
            IN  RatLess(EntrySim(y, q), EntrySim(x, q)) => ~PlacedAfter(t, x, y)

\* 2 * W, twice the feedback weight of 0.1.
TwiceW == <<1, 5>>

\* C18, amended: of two cached entries, one whose similarity to the query is
\* higher by more than 2*W = 0.2 never comes after the other, whatever the
\* scores; nor does one with a strictly higher similarity and the same score.
\* (A smaller lead can be overturned by the feedback scores.)
C18_DominatesBeyondTwiceW ==
    \A t \in Tasks : Returned(t, "search") =>
        \A k, m \in 1..Len(CacheList) :
            LET x == CacheList[k]
                y == CacheList[m]
                q == call[t].query_vector
            IN  /\ RatLess(RatAdd(EntrySim(y, q), TwiceW), EntrySim(x, q)) =>
                      ~PlacedAfter(t, x, y)
                /\ (RatLess(EntrySim(y, q), EntrySim(x, q)) /\ x.score = y.score) =>
                      ~PlacedAfter(t, x, y)

\* C18 witness: a search has returned two entries; the first leads the second
\* by more than 2*W in similarity although it has the score -1 and the second
\* the score 1.
C18_Witness ==
    \E t \in Tasks :
        /\ Returned(t, "search") /\ Len(ResultsOf(t)) = 2
        /\ ResultsOf(t)[1].score = Some(-1) /\ ResultsOf(t)[2].score = Some(1)
        /\ RatLess(RatAdd(ResultsOf(t)[2].similarity, TwiceW), ResultsOf(t)[1].similarity)

\* A vector whose norm is 0: no keys, or no weight other than 0.
IsZeroVector(v) == \A k \in DOMAIN v : v[k] = 0

\* C19: cosine_similarity returns a number in every case, and exactly 0 when v2
\* is empty or all zero, when the norm supplied for v1 is 0, and when none is
\* supplied and v1 is empty or all zero; with both norms non-zero it returns the
\* dot product over the product of the norms.
C19_ZeroNormGivesZero ==
    \A t \in Tasks : Returned(t, "cosine_similarity") =>
        LET c == call[t]
            zero1 == IF c.v1_norm # None THEN c.v1_norm[1] = 0 ELSE IsZeroVector(c.v1)
            n1 == IF c.v1_norm # None THEN c.v1_norm[1] ELSE norm(c.v1)
        IN  /\ ret[t].kind = "number"
            /\ ret[t].val[2] > 0
            /\ (zero1 \/ IsZeroVector(c.v2)) => ret[t].val = <<0, 1>>
            /\ ~(zero1 \/ IsZeroVector(c.v2)) =>
                  ret[t].val = <<dot_product(c.v1, c.v2), n1 * norm(c.v2)>>

\* C19 witness: cosine_similarity has returned 0 for two equal non-zero vectors
\* and a supplied norm of 0.
C19_Witness ==
    \E t \in Tasks :
        /\ Returned(t, "cosine_similarity") /\ ret[t].val = <<0, 1>>
        /\ call[t].v1 = V34 /\ call[t].v2 = V34 /\ call[t].v1_norm = Some(0)

\* The value of dimension i (from 0) that to_sparse_threshold looks at: the
\* dense value, over the vector's norm when normalisation is on and the norm
\* is not 0.
ValueAt(c, i) ==
    LET sq == SumSquares(c.dense)
        n == CHOOSE r \in 0..MaxNorm : r * r = sq
    IN  IF c.normalise /\ sq # 0 THEN <<c.dense[i + 1], n>> ELSE <<c.dense[i + 1], 1>>

C21_TopkKeeps ==
    \A t \in Tasks : Returned(t, "to_sparse_topk") =>
        LET c == call[t]
            out == ret[t].val
            dims == 0..(Len(c.dense) - 1)
            nonzero == {i \in dims : c.dense[i + 1] # 0}
            keptDims == {i \in dims : KeyNames[i + 1] \in DOMAIN out}
        IN  /\ DOMAIN out \subseteq {KeyNames[i + 1] : i \in dims}
            /\ Cardinality(DOMAIN out) <= c.k
            /\ Cardinality(DOMAIN out) =
                  IF c.k < Cardinality(nonzero) THEN c.k ELSE Cardinality(nonzero)
            /\ \A i \in keptDims :
                  /\ out[KeyNames[i + 1]] = ValueAt(c, i)
                  /\ out[KeyNames[i + 1]][1] # 0
            /\ \A i \in dims \ keptDims : \A j \in keptDims :
                  RatLeq(RatAbs(ValueAt(c, i)), RatAbs(ValueAt(c, j)))

\* C21 witness: the vector (0, -4, 3) has been normalised and cut to its top 3:
\* two entries are returned, the zero is not.
C21_Witness ==
    \E t \in Tasks :
        /\ Returned(t, "to_sparse_topk")
        /\ call[t].dense = <<0, -4, 3>> /\ call[t].normalise /\ call[t].k = 3
        /\ ret[t].val = ("1" :> <<-4, 5>> @@ "2" :> <<3, 5>>)

\* The magnitude of value i of vector j of a batch, and the places of a batch.
BatchPlaces(vs) == {<<j, i>> : j \in 1..Len(vs), i \in 1..MaxDim} \cap
                   {pl \in (1..Len(vs)) \X (1..MaxDim) : pl[2] <= Len(vs[pl[1]])}
MagnitudeAt(vs, pl) ==
    LET d == vs[pl[1]]
        sq == SumSquares(d)
        n == CHOOSE r \in 0..MaxNorm : r * r = sq
    IN  <<Abs(d[pl[2]]), IF sq = 0 THEN 1 ELSE n>>

\* x is the element at index k (from 0) of the ascending order of the
\* magnitudes: at most k of them are below x, more than k are not above it.
AtSortedIndex(vs, x, k) ==
    /\ \E pl \in BatchPlaces(vs) : RatEq(MagnitudeAt(vs, pl), x)
    /\ Cardinality({pl \in BatchPlaces(vs) : RatLess(MagnitudeAt(vs, pl), x)}) <= k
    /\ Cardinality({pl \in BatchPlaces(vs) : RatLeq(MagnitudeAt(vs, pl), x)}) > k

\* C22: for a batch with n > 0 magnitudes, magnitude_stats returns
\* min <= p10 <= p25 <= p50 <= p75 <= p90 <= max, min and max being the least
\* and the greatest magnitude and each percentile p the element at index
\* floor(p/100 * (n-1)) of the ascending order; for a batch without magnitudes
\* (no vector, or vectors without components) it returns the empty structure.
C22_PercentilesOrdered ==
    \A t \in Tasks : Returned(t, "magnitude_stats") =>
        LET vs == call[t].vectors
            st == ret[t].val
            n == Cardinality(BatchPlaces(vs))
        IN  IF n = 0 THEN DOMAIN st = {}
            ELSE /\ DOMAIN st = {"min", "max", "mean", "p10", "p25", "p50", "p75", "p90"}
                 /\ RatLeq(st.min, st.p10) /\ RatLeq(st.p10, st.p25)
                 /\ RatLeq(st.p25, st.p50) /\ RatLeq(st.p50, st.p75)
                 /\ RatLeq(st.p75, st.p90) /\ RatLeq(st.p90, st.max)
                 /\ AtSortedIndex(vs, st.min, 0)
                 /\ AtSortedIndex(vs, st.max, n - 1)
                 /\ AtSortedIndex(vs, st.p10, (10 * (n - 1)) \div 100)
                 /\ AtSortedIndex(vs, st.p25, (25 * (n - 1)) \div 100)
                 /\ AtSortedIndex(vs, st.p50, (50 * (n - 1)) \div 100)
                 /\ AtSortedIndex(vs, st.p75, (75 * (n - 1)) \div 100)
                 /\ AtSortedIndex(vs, st.p90, (90 * (n - 1)) \div 100)

\* C22 witness: the statistics of the six magnitudes of (3, 0, -4) and
\* (0, -4, 3): 0, 0, 3/5, 3/5, 4/5, 4/5 give p10 = 0, p50 = 3/5 and p90 = 4/5.
C22_Witness ==
    \E t \in Tasks :
        /\ Returned(t, "magnitude_stats")
        /\ call[t].vectors = <<(<<3, 0, -4>>), (<<0, -4, 3>>)>>
        /\ RatEq(ret[t].val.p10, <<0, 1>>) /\ RatEq(ret[t].val.p25, <<0, 1>>)
        /\ RatEq(ret[t].val.p50, <<3, 5>>) /\ RatEq(ret[t].val.p75, <<3, 5>>)
        /\ RatEq(ret[t].val.p90, <<4, 5>>)

\* C23: of two thresholds t1 <= t2 given to sparsity_at_thresholds with the same
\* vectors, the mean retained percentage reported for t2, rounded to one
\* decimal, is not greater than the one reported for t1.
C23_RetainedDecreases ==
    \A t \in Tasks : Returned(t, "sparsity_at_thresholds") =>
        \A a, b \in 1..Len(ret[t].val) :
            RatLeq(ret[t].val[a].key, ret[t].val[b].key)
                => RatLeq(ret[t].val[b].mean_retained_pct, ret[t].val[a].mean_retained_pct)

\* C23 witness: for (3, 0, -4) and (1) the thresholds 3/5 and 4/5 keep one of
\* three and one of one, and none of three and one of one: 66.7 and 50.0.
C23_Witness ==
    \E t \in Tasks :
        /\ Returned(t, "sparsity_at_thresholds")
        /\ call[t].vectors = <<(<<3, 0, -4>>), (<<1>>)>>
        /\ call[t].thresholds = <<(<<3, 5>>), (<<4, 5>>)>>
        /\ ret[t].val[1].mean_retained_pct = <<667, 10>>
        /\ ret[t].val[2].mean_retained_pct = <<500, 10>>

\* A vector that is neither a list nor a map: a number or a boolean, or JSON
\* text that holds neither (or holds no JSON at all).
NeitherListNorMap(raw) ==
    IF raw.kind = "str" THEN raw.val.kind \notin {"list", "dict"}
    ELSE raw.kind \notin {"list", "dict"}

\* C24: normalize_vector_input raises TypeError on a value that is neither a
\* list nor a map, and a search or memorize tool call with such a vector ends
\* in an error (TypeError, or the decoding error of its JSON text) with the
\* cache, the backing file and the lock as they were.
C24_BadVectorRejected ==
    [][\A t \in Tasks :
        (/\ pc[t] \in {"idle", "done"}
         /\ <<pc[t], call[t], ret[t]>> # <<pc'[t], call'[t], ret'[t]>>
         /\ call'[t].op \in {"memorize", "tool_search"}
         /\ NeitherListNorMap(call'[t].vector))
        => /\ (call'[t].vector.kind # "str"
                  => NormalizeResult(call'[t].vector) = [kind |-> "error", val |-> "TypeError"])
           /\ pc'[t] = "done"
           /\ ret'[t].kind = "error"
           /\ ret'[t].val \in {"TypeError", "JSONDecodeError"}
           /\ UNCHANGED <<entries, file, initialized, locked>>]_vars

\* C24 witness: with one entry stored, a memorize call whose vector is a number
\* has ended in TypeError and the cache and the file still hold the one entry.
C24_Witness ==
    \E t \in Tasks :
        /\ Returned(t, "memorize")
        /\ call[t].vector = OtherInput("number")
        /\ ret[t] = ErrRet("TypeError")
        /\ Len(CacheList) = 1 /\ Len(FileContent) = 1

\* What one setting must be by the rule "the variable when it is set to a valid
\* value, else the file's value, else the default": `got` is checked when the
\* variable is valid, or unset with the file's value good or absent.
Overrides(got, envValid, envUnset, envValue, fileGood, fileAbsent, fileValue, default) ==
    /\ envValid => got = envValue
    /\ (envUnset /\ fileGood) => got = fileValue
    /\ (envUnset /\ fileAbsent) => got = default

\* C25 as stated: load_config returns, for the storage file, the port, the embed
\* model, the embed dims and the embed threshold, the value of the environment
\* variable when that is set to a valid value, whatever the file says; the
\* file's value when the variable is unset; the default when both are absent.
C25_EnvOverridesFile ==
    \A t \in Tasks : Returned(t, "load_config") =>
        LET cfg == call[t].cfg
            env == call[t].env
            got == ret[t].val
        IN  /\ ret[t].kind = "config"
            /\ Overrides(got.storage_file, EnvSet(env.VECFS_FILE), env.VECFS_FILE = None,
                         env.VECFS_FILE[1], cfg.file.kind = "str", cfg.file = Absent,
                         cfg.file.val, DEFAULT_STORAGE_FILE)
            /\ Overrides(got.mcp_port,
                         EnvSet(env.PORT) /\ env.PORT[1] \in DOMAIN IntText, env.PORT = None,
                         IntText[env.PORT[1]], cfg.port.kind = "int", cfg.port = Absent,
                         cfg.port.val, DEFAULT_MCP_PORT)
            /\ Overrides(got.model, EnvSet(env.VECFS_EMBED_MODEL), env.VECFS_EMBED_MODEL = None,
                         env.VECFS_EMBED_MODEL[1], cfg.model.kind = "str", cfg.model = Absent,
                         cfg.model.val, DEFAULT_EMBED_MODEL)
            /\ Overrides(got.dims,
                         EnvSet(env.VECFS_EMBED_DIMS) /\ env.VECFS_EMBED_DIMS[1] \in DOMAIN IntText,
                         env.VECFS_EMBED_DIMS = None,
                         Some(IntText[env.VECFS_EMBED_DIMS[1]]), cfg.dims.kind = "int",
                         cfg.dims = Absent, Some(cfg.dims.val), None)
            /\ Overrides(got.threshold,
                         EnvSet(env.VECFS_EMBED_THRESHOLD)
                             /\ env.VECFS_EMBED_THRESHOLD[1] \in DOMAIN FloatText,
                         env.VECFS_EMBED_THRESHOLD = None,
                         FloatText[env.VECFS_EMBED_THRESHOLD[1]], cfg.threshold.kind = "float",
                         cfg.threshold = Absent, cfg.threshold.val, DEFAULT_EMBED_THRESHOLD)

\* C26: a store on an id that no cached entry has puts the new entry behind the
\* entries the cache had, which stay as they were, and leaves the file alone
\* until its write; the write puts the one line of the new entry behind the
\* lines the file had, which stay as they were, and leaves the cache alone.
C26_StoreAppendsOnly ==
    [][\A t \in Tasks :
        /\ (Begins(t, "store") /\ IndexOf(Loaded, call'[t].id) = 0) =>
              /\ pc'[t] = "store_persist_append"
              /\ Len(CacheList') = Len(Loaded) + 1
              /\ SubSeq(CacheList', 1, Len(Loaded)) = Loaded
              /\ CacheList'[Len(CacheList')].id = call'[t].id
              /\ FileContent' = FileContent
        /\ (Returns(t) /\ pc[t] = "store_persist_append") =>
              /\ Len(FileContent') = Len(FileContent) + 1
              /\ SubSeq(FileContent', 1, Len(FileContent)) = FileContent
              /\ FileContent'[Len(FileContent')]
                     = _entry_to_jsonl_line(CacheList[Len(CacheList)])
              /\ CacheList' = CacheList
      ]_vars

\* C26 witness: a store of the new id c on a file of a record, a broken line
\* and a record has returned True; the cache holds a, b, c and the file its
\* three old lines and the line of c.
C26_Witness ==
    \E t \in Tasks :
        /\ Returned(t, "store") /\ ret[t] = BoolRet(TRUE) /\ call[t].id = "c"
        /\ Len(CacheList) = 3 /\ CacheList[1].id = "a" /\ CacheList[2].id = "b"
        /\ Len(FileContent) = 4
        /\ SubSeq(FileContent, 1, 3) = <<RecordA, Junk("broken"), RecordB>>

\* C27: an update_score on an id that a cached entry has changes the score of
\* the first entry with that id and nothing else in the cache: the entry keeps
\* its id, vector, metadata, timestamp and place, every other entry every
\* field; the write that follows changes nothing in the cache.
C27_UpdateChangesScoreOnly ==
    [][\A t \in Tasks :
        /\ (Begins(t, "update_score") /\ IndexOf(Loaded, call'[t].id) # 0) =>
              LET i == IndexOf(Loaded, call'[t].id)
              IN  /\ pc'[t] = "update_persist_all"
                  /\ Len(CacheList') = Len(Loaded)
                  /\ \A j \in 1..Len(Loaded) : j # i => CacheList'[j] = Loaded[j]
                  /\ CacheList'[i].id = Loaded[i].id
                  /\ CacheList'[i].vector = Loaded[i].vector
                  /\ CacheList'[i].metadata = Loaded[i].metadata
                  /\ CacheList'[i].timestamp = Loaded[i].timestamp
                  /\ DOMAIN CacheList'[i] = DOMAIN Loaded[i]
        /\ (Returns(t) /\ pc[t] = "update_persist_all") => CacheList' = CacheList
      ]_vars

\* C27 witness: an update_score of b has returned True on a cache loaded from
\* the records a and b; b is still second, with its vector, metadata and
\* timestamp and the score 1, and a is as it was loaded.
C27_Witness ==
    \E t \in Tasks :
        /\ Returned(t, "update_score") /\ ret[t] = BoolRet(TRUE) /\ call[t].id = "b"
        /\ Len(CacheList) = 2
        /\ CacheList[1] = _parse_line(RecordA)
        /\ CacheList[2] = [_parse_line(RecordB) EXCEPT !.score = Some(1)]

\* C28: a search on a loaded store (one caller) leaves the cache, its order, the
\* file, the flag and the lock as they were, and a search that repeats the
\* caller's last call, a search, with nothing in between returns what that
\* returned.
C28_SearchIsPureRead ==
    [][\A t \in Tasks :
        (/\ pc[t] \in {"idle", "done"} /\ pc'[t] = "done"
         /\ call'[t].op = "search"
         /\ entries # None)
        => /\ UNCHANGED <<entries, file, initialized, locked, waiters>>
           /\ (pc[t] = "done" /\ call[t] = call'[t]) => ret'[t] = ret[t]
      ]_vars

\* C28 witness: a search with limit 2 has returned two results whose order is
\* not the order of the cache, and the cache and the file still hold the three
\* entries in their order.
C28_Witness ==
    \E t \in Tasks :
        /\ Returned(t, "search") /\ call[t].limit = 2 /\ Len(ret[t].val) = 2
        /\ Len(CacheList) = 3 /\ Len(FileContent) = 3
        /\ CacheList[1].id = "a" /\ CacheList[2].id = "b" /\ CacheList[3].id = "c"
        /\ ret[t].val[1].id = "c"
        /\ FileContent = SerializeAll(CacheList)

\* a asked for the lock before b, both still wait: a is ahead of b in queue w.
AheadIn(w, a, b) == \E i, j \in 1..Len(w) : i < j /\ w[i] = a /\ w[j] = b

\* A step in which caller b's mutating operation takes effect on the cache.
TakesEffect(b) ==
    /\ pc[b] \in {"idle", "done", "waiting"}
    /\ pc'[b] # "waiting"
    /\ <<pc[b], call[b], ret[b]>> # <<pc'[b], call'[b], ret'[b]>>
    /\ call'[b].op \in {"store", "update_score", "delete"}

\* C29: mutating operations take effect in the order in which they asked for
\* the lock.  A caller that has to wait joins the end of the queue and the
\* order of the queue is kept; when an operation takes effect, every caller
\* still waiting asked after it, and no operation that got the lock earlier
\* is still between its change of the cache and the end of its write.
C29_LockIsFifo ==
    [][\A b \in Callers :
        /\ TakesEffect(b) =>
              \A a \in Callers \ {b} :
                  /\ pc[a] = "waiting" => (pc[b] = "waiting" /\ AheadIn(waiters, b, a))
                  /\ pc[a] \notin Suspended
        /\ (pc[b] # "waiting" /\ pc'[b] = "waiting") => waiters' = Append(waiters, b)
        /\ \A a \in Callers :
              (AheadIn(waiters, a, b) /\ pc'[a] = "waiting" /\ pc'[b] = "waiting")
                  => AheadIn(waiters', a, b)
      ]_vars

\* C29 witness: t1 has returned from its store, t2, which waited first, is in
\* its write, and t3, which asked after t2, still waits.
C29_Witness ==
    /\ pc = [t1 |-> "done", t2 |-> "update_persist_all", t3 |-> "waiting"]
    /\ call["t1"].op = "store" /\ ret["t1"] = BoolRet(TRUE)
    /\ waiters = <<"t3">>
    /\ call["t3"].op = "delete"

\* C30: under a fair scheduler and with writes that end, a caller that is in an
\* operation, waiting for the lock or between the change of the cache and the
\* end of the write, gets to its return (search returns in its one step).
C30_EveryCallReturns ==
    \A t \in Tasks : (pc[t] \in Suspended \cup {"waiting"}) ~> (pc[t] = "done")

\* C30 witness: t2, which had to wait for the lock, has returned True from its
\* store after t1's delete ended in OSError.
C30_Witness ==
    /\ pc = [t1 |-> "done", t2 |-> "done"]
    /\ call["t1"].op = "delete" /\ ret["t1"] = ErrRet("OSError")
    /\ call["t2"].op = "store" /\ ret["t2"] = BoolRet(FALSE)
    /\ ~locked /\ waiters = <<>>
    /\ Len(CacheList) = 1 /\ Len(FileContent) = 1

\* A step in which task t's whole-file rewrite ends.
Rewrites(t) ==
    /\ pc[t] \in {"store_persist_all", "update_persist_all", "delete_persist_all"}
    /\ pc'[t] = "done"

\* C31: once the cache is loaded it stays loaded and is what every operation
\* works on.  A change of the file that is no write of the storage leaves the
\* cache alone; a search leaves the cache alone and answers from it, whatever
\* the file holds; a mutating operation changes the cache it found, not what
\* the file holds; and a whole-file rewrite makes the file the lines of the
\* cache, whatever it held.
C31_CacheIsTheTruth ==
    [][entries # None =>
        /\ entries' # None
        /\ (file' # file /\ pc' = pc) => entries' = entries
        /\ \A t \in Tasks :
              /\ (pc[t] \in {"idle", "done"} /\ pc'[t] = "done" /\ call'[t].op = "search"
                     /\ file' = file) =>
                    /\ entries' = entries
                    /\ ret'[t] = ListRet(SearchResults(entries[1], call'[t].query_vector,
                                                         call'[t].limit))
              /\ Begins(t, "store") =>
                    /\ Len(CacheList') \in {Len(CacheList), Len(CacheList) + 1}
                    /\ \A i \in 1..Len(CacheList) :
                          CacheList[i].id # call'[t].id => CacheList'[i] = CacheList[i]
              /\ Begins(t, "update_score") \/ Begins(t, "delete") =>
                    \A i \in 1..Len(CacheList') : \E j \in 1..Len(CacheList) :
                        CacheList'[i].id = CacheList[j].id
              /\ Rewrites(t) => file' = Some(SerializeAll(entries[1]))
      ]_vars

\* C31 witness: the cache holds a alone while the file holds the line of a and
\* a record b that came from outside, and a search has returned a alone.
C31_Witness ==
    \E t \in Tasks :
        /\ Returned(t, "search") /\ Len(ret[t].val) = 1 /\ ret[t].val[1].id = "a"
        /\ Len(CacheList) = 1
        /\ FileContent = SerializeAll(CacheList) \o <<RecordB>>

\* What the store that takes effect in this step makes of the cache `es`.
StoredInto(es, t) ==
    LET i == IndexOf(es, call'[t].id)
    IN  IF i = 0 THEN Append(es, full'[t][1]) ELSE [es EXCEPT ![i] = full'[t][1]]

\* C32: with searches and stores of two callers in any interleaving, the step
\* that loads the cache makes it the records of the file, each once and in file
\* order (with the entry of the store, when a store is what loads); from then
\* on the cache is never loaded again: a search leaves it as it is, and a store
\* changes the entry of its id or adds one, so that no entry a store has added
\* is lost.
C32_LoadedOnce ==
    [][/\ (entries = None /\ entries' # None) =>
             \/ entries'[1] = ParseAll(RecordLines)
             \/ \E t \in Tasks : /\ Begins(t, "store")
                                  /\ entries'[1] = StoredInto(ParseAll(RecordLines), t)
       /\ entries # None =>
             /\ entries' # None
             /\ \/ entries' = entries
                \/ \E t \in Tasks : /\ Begins(t, "store")
                                     /\ entries'[1] = StoredInto(entries[1], t)
      ]_vars

\* C32 witness: on a file of the records a and b, t1's store of c is between
\* its change of the cache and its write, and t2's search, run meanwhile, has
\* returned c among its results; the cache holds a, b and c, each once.
C32_Witness ==
    /\ pc["t1"] = "store_persist_append" /\ call["t1"].id = "c"
    /\ Returned("t2", "search")
    /\ \E i \in 1..Len(ret["t2"].val) : ret["t2"].val[i].id = "c"
    /\ FileContent = <<RecordA, RecordB>>
    /\ Len(CacheList) = 3
    /\ CacheList[1].id = "a" /\ CacheList[2].id = "b" /\ CacheList[3].id = "c"

\* The list part of C33: the result of a list holds, under i (from 0), the value
\* at i, for exactly the places whose value is not 0.
DenseNormalized(t) ==
    call[t].raw.kind = "list" =>
        LET l == call[t].raw.val
            v == ret[t].val
        IN  /\ ret[t].kind = "dict"
            /\ DOMAIN v = {i - 1 : i \in {j \in 1..Len(l) : l[j] # 0}}
            /\ \A k \in DOMAIN v : v[k] = l[k + 1]

\* C33 as stated: the result of a list is as above, and the result of a map
\* holds every item of the map, a zero value too, under the integer of its key.
C33_EveryItemKept ==
    \A t \in Tasks : Returned(t, "normalize_vector_input") =>
        /\ DenseNormalized(t)
        /\ call[t].raw.kind = "items" =>
              LET items == call[t].raw.val
                  v == ret[t].val
              IN  /\ ret[t].kind = "dict"
                  /\ DOMAIN v = {IntOfKey(items[i][1]) : i \in 1..Len(items)}
                  /\ \A i \in 1..Len(items) : v[IntOfKey(items[i][1])] = items[i][2]

\* C33, amended: the result of a map holds an entry under the integer of every
\* key; of the items whose keys denote the same integer it holds the value of
\* the last one, so every item is kept (a zero value too) when the keys denote
\* different integers.
C33_ItemsKeptUnderDistinctKeys ==
    \A t \in Tasks : Returned(t, "normalize_vector_input") =>
        /\ DenseNormalized(t)
        /\ call[t].raw.kind = "items" =>
              LET items == call[t].raw.val
                  v == ret[t].val
              IN  /\ ret[t].kind = "dict"
                  /\ DOMAIN v = {IntOfKey(items[i][1]) : i \in 1..Len(items)}
                  /\ \A i \in 1..Len(items) :
                        (\A j \in 1..Len(items) :
                            IntOfKey(items[j][1]) = IntOfKey(items[i][1]) => j <= i)
                        => v[IntOfKey(items[i][1])] = items[i][2]

\* C33 witness: the map {"0": 0, 2: -4} has given {0: 0, 2: -4}, the zero kept
\* and both keys integers.
C33_Witness ==
    \E t \in Tasks :
        /\ Returned(t, "normalize_vector_input")
        /\ call[t].raw = ItemsInput(<<(<<StrKey("0"), 0>>), (<<IntKey(2), -4>>)>>)
        /\ DOMAIN ret[t].val = {0, 2}
        /\ ret[t].val[0] = 0 /\ ret[t].val[2] = -4


\* C34: a store, update_score or delete whose file write fails leaves the
\* cached entries as they were before the call: the id of a failed new-id store
\* is not in the cache, the id of a failed delete still is, and the cache
\* holds the records of the file.
C34_FailedWriteRestoresCache ==
    [][\A t \in Tasks : WriteFailsIn(t) =>
          /\ pc[t] = "store_persist_append" => call[t].id \notin CachedIds'
          /\ pc[t] = "delete_persist_all" => call[t].id \in CachedIds'
          /\ file' # None /\ ParseAll(file'[1]) = CacheList'
      ]_vars


\* C35: when the load of the file raises part-way (a line that _parse_line
\* cannot convert), the storage stays unloaded: the operation that tried to
\* load leaves no cache behind, so that no later operation takes the entries
\* read before the failure for the loaded state.
C35_FailedLoadStaysUnloaded ==
    [][\A t \in Tasks : LoadRaises /\ Begins(t, "search") => entries' = None]_vars


\* C36: on any backing file that was there before, records with the same id
\* included, the cache never has two entries with the same id, and a delete
\* that found its id leaves no entry with that id in the cache.
C36_UniqueIdsOnAnyFile ==
    [][/\ \A i, j \in 1..Len(CacheList') :
              CacheList'[i].id = CacheList'[j].id => i = j
       /\ \A t \in Tasks :
              (pc[t] = "delete_persist_all" /\ pc'[t] = "done" /\ ret'[t] = BoolRet(TRUE))
                  => call[t].id \notin CachedIds'
      ]_vars


\* C37: the lines of the file that the load skipped stay where they are, with
\* every other line before them, in every step that is no whole-file rewrite
\* (a search, an update_score or delete that finds nothing, a store on a new
\* id and its append); a whole-file rewrite (the write of a store on an
\* existing id, of an update_score or of a delete that found its id) leaves
\* the file with the lines of the cache and no skipped line.
C37_SkippedLinesUntilRewrite ==
    [][IF \E t \in Tasks : Rewrites(t)
       THEN SkippedOf(FileContent') = <<>> /\ FileContent' = SerializeAll(CacheList)
       ELSE /\ Len(FileContent') >= Len(FileContent)
            /\ SubSeq(FileContent', 1, Len(FileContent)) = FileContent
            /\ SkippedOf(FileContent') = SkippedOf(FileContent)
      ]_vars

\* C37 witness: on a file of a record, a broken line and a record, a store of
\* the new id c has appended its line and an update_score has found a: the
\* broken line is still the second of the four lines, and the rewrite that
\* drops it is the next step.
C37_Witness ==
    \E t \in Tasks :
        /\ pc[t] = "update_persist_all" /\ call[t].id = "a"
        /\ Len(FileContent) = 4
        /\ SubSeq(FileContent, 1, 3) = <<RecordA, Junk("broken"), RecordB>>
        /\ IsEntry(FileContent[4]) /\ FileContent[4].id = "c"
        /\ Len(CacheList) = 3


\* C38: a memorize always stores the score 0.  The store it calls leaves one
\* entry with its id in the cache, with the score 0 and in the place the id had
\* when it was there already, whatever score feedback had given it; the write
\* that follows leaves the line of that id in the file with the score 0.
C38_MemorizeResetsScore ==
    [][\A t \in Tasks :
        /\ Begins(t, "store") =>
              LET i == IndexOf(CacheList', call'[t].id)
              IN  /\ i # 0
                  /\ CacheList'[i].score = Some(0)
                  /\ IndexOf(Loaded, call'[t].id) \in {0, i}
                  /\ \A j \in 1..Len(CacheList') :
                         CacheList'[j].id = call'[t].id => j = i
        /\ (Returns(t) /\ call[t].op = "store") =>
              /\ \E k \in 1..Len(FileContent') : FileContent'[k].id = call[t].id
              /\ \A k \in 1..Len(FileContent') :
                     FileContent'[k].id = call[t].id => FileContent'[k].score = Some(0)
      ]_vars

\* C38 witness: one client's feedback(a, 2) has found a, the other client's
\* memorize of a has replaced the entry, and the score of a is 0 in the cache
\* and in the file (a feedback after the memorize would have left it at 2).
C38_Witness ==
    \E t, u \in Tasks :
        /\ Returned(t, "update_score") /\ ret[t] = BoolRet(TRUE)
        /\ call[t].id = "a" /\ call[t].score_adjustment = 2
        /\ Returned(u, "store") /\ ret[u] = BoolRet(FALSE) /\ call[u].id = "a"
        /\ CacheList[PosOf("a")].score = Some(0)
        /\ FileContent = SerializeAll(CacheList)

====
